---- MODULE Spec2Model ----
(***************************************************************************)
(* Pavement design engine of report-pavement-aashto1993:                   *)
(*   - flexible pavement: aashto_1993_equation, calculate_sn_for_layer,    *)
(*     calculate_layer_thicknesses (src/app.py,                            *)
(*     src/Cal-Report-Rigid-Pavement.py)                                   *)
(*   - rigid pavement: calculate_aashto_rigid_w18, check_design            *)
(*     (src/Claude-AI-Rigid.py and its copies)                             *)
(*   - nomograph axes: log_map / log_unmap, Build Calibration              *)
(*     (src/GPT-k-eff.py), interpolate_log_scale (src/Germini-Kcom-LS.py)  *)
(*                                                                         *)
(* Floating point numbers are modelled in two ways.  Quantities that the   *)
(* code obtains with + - * / from decimal inputs (thicknesses, layer       *)
(* coefficients, structural numbers rounded to two decimals) are exact     *)
(* integers in a stated unit.  Quantities that go through log10 or a real  *)
(* power are binary fixed point numbers with FP units per 1.0; log10 and   *)
(* the powers are computed digit by digit.  IEEE special values (inf, nan) *)
(* and Python exceptions are explicit tags.                                *)
(***************************************************************************)
EXTENDS Integers, Sequences, FiniteSets, TLC

(***************************************************************************)
(* Fixed point arithmetic                                                  *)
(***************************************************************************)

\* 2^(2^-i) for i = 1..14, in fixed point
Exp2Table == << 23170, 19484, 17867, 17109, 16743, 16562, 16473,
                16428, 16406, 16395, 16390, 16387, 16385, 16385 >>

\* the number of fraction bits of the fixed point numbers
FracBits == Len(Exp2Table)

\* fixed point units per 1.0
FP == 2^FracBits

Abs(x) == IF x < 0 THEN -x ELSE x

Max(a, b) == IF a >= b THEN a ELSE b

\* integer division rounding toward zero (the sign is handled apart)
DivT(a, b) == IF (a < 0) = (b < 0) THEN Abs(a) \div Abs(b) ELSE -(Abs(a) \div Abs(b))

RECURSIVE Pow2(_)
Pow2(n) == IF n <= 0 THEN 1 ELSE 2 * Pow2(n - 1)

\* floor(log2 n) for an integer n >= 1
RECURSIVE FloorLog2(_)
FloorLog2(n) == IF n < 2 THEN 0 ELSE 1 + FloorLog2(n \div 2)

\* the fraction bits of log2 of a mantissa m in [FP, 2*FP), by repeated squaring
RECURSIVE Log2Frac(_, _)
Log2Frac(m, bit) ==
    IF bit > FracBits THEN 0
    ELSE LET sq == (m * m) \div FP
         IN  IF sq >= 2 * FP
             THEN FP \div Pow2(bit) + Log2Frac(sq \div 2, bit + 1)
             ELSE Log2Frac(sq, bit + 1)

\* log2 of an integer n >= 1, in fixed point
Log2Int(n) ==
    LET e == FloorLog2(n)
        m == IF e <= FracBits THEN n * Pow2(FracBits - e) ELSE n \div Pow2(e - FracBits)
    IN  e * FP + Log2Frac(m, 1)

\* log2 of the positive rational n/d
Log2Rat(n, d) == Log2Int(n) - Log2Int(d)

\* log10(2) = 0.30103 as 1233/4096
Log10Of2(x) == DivT(x * 1233, 4096)

\* log10 of the positive rational n/d, in fixed point
Log10Rat(n, d) == Log10Of2(Log2Rat(n, d))

\* 2^(f/FP) for a fraction 0 <= f < FP: a mantissa in [FP, 2*FP)
RECURSIVE Exp2Frac(_, _)
Exp2Frac(f, bit) ==
    IF bit > FracBits THEN FP
    ELSE LET w == FP \div Pow2(bit)
         IN  IF f >= w
             THEN (Exp2Table[bit] * Exp2Frac(f - w, bit + 1)) \div FP
             ELSE Exp2Frac(f, bit + 1)

\* c * 2^(y/FP) for an integer c >= 0 and any fixed point exponent y; the
\* result is in fixed point (c * FP * 2^y)
ScaleExp2(c, y) ==
    LET e == IF y >= 0 THEN y \div FP ELSE -((-y + FP - 1) \div FP)
        f == y - e * FP
        m == Exp2Frac(f, 1)
    IN  IF e >= 0 THEN c * m * Pow2(e) ELSE (c * m) \div Pow2(-e)

(***************************************************************************)
(* IEEE values: finite (fixed point), +inf / -inf, nan                     *)
(***************************************************************************)

Fin(x) == [k |-> "fin", v |-> x]

PosInf == [k |-> "inf", v |-> 1]

NegInf == [k |-> "inf", v |-> -1]

NaN == [k |-> "nan", v |-> 0]

IsNaN(a) == a.k = "nan"

\* -1, 0, 1: the sign of a value that is not nan
Sign(a) == IF a.v > 0 THEN 1 ELSE IF a.v < 0 THEN -1 ELSE 0

XNeg(a) == [a EXCEPT !.v = -a.v]

XAdd(a, b) ==
    IF IsNaN(a) \/ IsNaN(b) THEN NaN
    ELSE IF a.k = "inf" /\ b.k = "inf" THEN (IF a.v = b.v THEN a ELSE NaN)
    ELSE IF a.k = "inf" THEN a
    ELSE IF b.k = "inf" THEN b
    ELSE Fin(a.v + b.v)

XSub(a, b) == XAdd(a, XNeg(b))

\* a * (n/d) for a constant n/d > 0
XScale(a, n, d) == IF a.k = "fin" THEN Fin(DivT(a.v * n, d)) ELSE a

\* a / den for a finite fixed point den > 0
XDivPos(a, den) == IF a.k = "fin" THEN Fin(DivT(a.v * FP, den)) ELSE a

\* np.log10 of the rational n/d (d > 0): -inf at 0, nan below 0, no exception
np_log10(n, d) ==
    IF n > 0 THEN Fin(Log10Rat(n, d)) ELSE IF n = 0 THEN NegInf ELSE NaN

(***************************************************************************)
(* Flexible pavement: the performance equation and the SN solver           *)
(*                                                                         *)
(* Units: SN in 1/SNU inside the solver and in 1/100 once rounded; W18 in  *)
(* ESAL; Zr in 1/1000; So in 1/100; P0, Pt, delta_psi in 1/10; Mr in psi.  *)
(***************************************************************************)

\* trial SN values are multiples of 1/SNU
SNU == 10^3

\* brentq(f, 0.01, 25.0, xtol=1e-6, maxiter=100)
BracketLo == SNU \div 100

BracketHi == 25 * SNU

maxiter == 100

\* Python's None, a float result, a raised exception
None == [t |-> "None"]

Num(x) == [t |-> "num", v |-> x]

Raise(e) == [t |-> "raise", exc |-> e]

\* residual of the AASHTO 1993 equation at the trial value SN (in 1/SNU)
aashto_1993_equation(SN, W18, Zr, So, delta_psi, Mr) ==
    LET log_W18 == np_log10(W18, 1)
        term1 == Fin(DivT(Zr * So * (FP \div 16), 100000 \div 16))
        term2 == Fin(DivT(936 * Log10Rat(SN + SNU, SNU), 100) - (20 * FP) \div 100)
        numerator == np_log10(delta_psi, 27)
        denominator == (4 * FP) \div 10
                       + ScaleExp2(1094, -((519 * Log2Rat(SN + SNU, SNU)) \div 100))
        term3 == XDivPos(numerator, denominator)
        term4 == XSub(XScale(np_log10(Mr, 1), 232, 100), Fin((807 * FP) \div 100))
        right_side == XAdd(XAdd(XAdd(term1, term2), term3), term4)
    IN  XSub(right_side, log_W18)

\* what brentq returns: the root and the number of iterations it took
Root(x, iterations) == [t |-> "num", v |-> x, iterations |-> iterations]

\* a root search that gives up after ShortLimit iterations and returns the
\* iterate it has reached
RECURSIVE BrentIterateUnconverged(_, _, _, _, _, _, _, _, _, _)
BrentIterateUnconverged(lo, flo, hi, fhi, iter, W18, Zr, So, delta_psi, Mr) ==
    IF hi - lo <= 1
    THEN Root(IF flo.k = "fin" /\ (fhi.k # "fin" \/ Abs(flo.v) <= Abs(fhi.v)) THEN lo ELSE hi, iter)
    ELSE IF iter >= maxiter \div 10 THEN Root((lo + hi) \div 2, iter)
    ELSE LET mid == (lo + hi) \div 2
             fmid == aashto_1993_equation(mid, W18, Zr, So, delta_psi, Mr)
         IN  IF IsNaN(fmid) THEN Raise("ValueError")
             ELSE IF Sign(fmid) = 0 THEN Root(mid, iter + 1)
             ELSE IF Sign(fmid) = Sign(flo)
                  THEN BrentIterateUnconverged(mid, fmid, hi, fhi, iter + 1, W18, Zr, So, delta_psi, Mr)
                  ELSE BrentIterateUnconverged(lo, flo, mid, fmid, iter + 1, W18, Zr, So, delta_psi, Mr)

\* the root search of brentq on the grid of trial values, once the bracket
\* [lo, hi] holds a sign change; flo and fhi are the residuals at its ends and
\* iter counts the iterations made so far (RuntimeError after maxiter)
RECURSIVE BrentIterate(_, _, _, _, _, _, _, _, _, _)
BrentIterate(lo, flo, hi, fhi, iter, W18, Zr, So, delta_psi, Mr) ==
    IF hi - lo <= 1
    THEN Root(IF flo.k = "fin" /\ (fhi.k # "fin" \/ Abs(flo.v) <= Abs(fhi.v)) THEN lo ELSE hi, iter)
    ELSE IF iter >= maxiter THEN Raise("RuntimeError")
    ELSE LET mid == (lo + hi) \div 2
             fmid == aashto_1993_equation(mid, W18, Zr, So, delta_psi, Mr)
         IN  IF IsNaN(fmid) THEN Raise("ValueError")
             ELSE IF Sign(fmid) = 0 THEN Root(mid, iter + 1)
             ELSE IF Sign(fmid) = Sign(flo)
                  THEN BrentIterate(mid, fmid, hi, fhi, iter + 1, W18, Zr, So, delta_psi, Mr)
                  ELSE BrentIterate(lo, flo, mid, fmid, iter + 1, W18, Zr, So, delta_psi, Mr)

\* a root search that does not test the signs at the ends of the bracket
brentq_unchecked(a, b, W18, Zr, So, delta_psi, Mr) ==
    BrentIterate(a, aashto_1993_equation(a, W18, Zr, So, delta_psi, Mr),
                 b, aashto_1993_equation(b, W18, Zr, So, delta_psi, Mr),
                 0, W18, Zr, So, delta_psi, Mr)

\* scipy.optimize.brentq applied to f(SN) = aashto_1993_equation(SN, ...):
\* ValueError when f is nan or f(a) * f(b) > 0, otherwise a root in [a, b]
brentq(a, b, W18, Zr, So, delta_psi, Mr) ==
    LET fa == aashto_1993_equation(a, W18, Zr, So, delta_psi, Mr)
        fb == aashto_1993_equation(b, W18, Zr, So, delta_psi, Mr)
    IN  IF IsNaN(fa) \/ IsNaN(fb) THEN Raise("ValueError")
        ELSE IF Sign(fa) * Sign(fb) > 0 THEN Raise("ValueError")
        ELSE IF Sign(fa) = 0 THEN Root(a, 0)
        ELSE IF Sign(fb) = 0 THEN Root(b, 0)
        ELSE BrentIterate(a, fa, b, fb, 0, W18, Zr, So, delta_psi, Mr)

\* Python round(n/d, digits) as an integer count of 10^-digits, d > 0, n >= 0:
\* to nearest, ties to even
RoundTo(n, d, scale) ==
    LET q == (n * scale) \div d
        r == (n * scale) % d
    IN  IF 2 * r > d \/ (2 * r = d /\ q % 2 = 1) THEN q + 1 ELSE q

\* required SN (in 1/100) for the support modulus Mr, None when brentq
\* raises ValueError; any other exception propagates
calculate_sn_for_layer(W18, Zr, So, delta_psi, Mr) ==
    LET SN_required == brentq(BracketLo, BracketHi, W18, Zr, So, delta_psi, Mr)
    IN  IF SN_required.t = "num" THEN Num(RoundTo(SN_required.v, SNU, 100))
        ELSE IF SN_required.exc = "ValueError" THEN None
        ELSE SN_required

(***************************************************************************)
(* Arguments of the modelled calls                                         *)
(***************************************************************************)

\* the longest layer list passed to calculate_layer_thicknesses
MaxLayers == 2

\* the values of the form: W18; RELIABILITY_ZR[50] and RELIABILITY_ZR[90];
\* So; delta_psi = P0 - Pt (4.2 - 2.5 and 3.0 - 3.5); the subgrade modulus
\* int(1500 * CBR) for CBR 23.5 and CBR 5; the chosen thickness in 1/10 cm
\* (5 cm and 13 cm)
FormValues ==
    [W18 |-> {100000, 5000000},
     Zr |-> {0, -1282},
     So |-> {45},
     delta_psi |-> {17, -5},
     subgrade_mr |-> {35250, 7500},
     thickness_cm |-> {50, 130}]

\* layer dicts: a material with the coefficient keys it carries, before the
\* thickness is chosen (without the keys the material's layer_coeff and a
\* drainage_coeff of 1.0 apply)
LayerTemplates ==
    { [material |-> "PMA"],
      [material |-> "CAB"],
      [material |-> "NONE"],
      [material |-> "CAB", layer_coeff |-> 0],
      [material |-> "CAB", drainage_coeff |-> 0],
      [material |-> "PMA", layer_coeff |-> 10, drainage_coeff |-> 50] }

\* layer dicts of a design that is brought to its minimum thicknesses: a
\* surface, a base, and a subbase softer than a firm subgrade
DesignLayerTemplates ==
    { [material |-> "PMA"],
      [material |-> "CAB"],
      [material |-> "GSB"] }

LayerMaterials == { l.material : l \in LayerTemplates \cup DesignLayerTemplates }

WithThickness(layer, thickness_cm) ==
    [k \in DOMAIN layer \cup {"thickness_cm"} |->
        IF k = "thickness_cm" THEN thickness_cm ELSE layer[k]]

LayerChoices == { WithThickness(l, th) : l \in LayerTemplates, th \in FormValues.thickness_cm }

(***************************************************************************)
(* Flexible pavement: the material table and the layer allocator           *)
(*                                                                         *)
(* Units: layer and drainage coefficients in 1/100, thicknesses in 1/10 cm *)
(* (the form takes decimal thicknesses and the report gives the minimum to *)
(* 0.1 cm), sn_required in 1/100.  The running cumulative_sn is exact in   *)
(* units of 1/SNX: a_i * (t_cm / 2.54) * m_i = (A * M * T) / 254000.       *)
(***************************************************************************)

SNX == 1000 * 254

\* MATERIALS, keyed by short_name ("NONE" is the skip-layer entry)
MATERIALS ==
    [m \in {"AC", "PMA", "CTB", "MOD.CRB", "CAB", "SCB", "RAP", "GSB", "SM-A", "NONE"} |->
       CASE m = "AC"      -> [layer_coeff |-> 40, drainage_coeff |-> 100, mr_psi |-> 362500, mr_mpa |-> 2500, layer_type |-> "surface", short_name |-> "AC"]
         [] m = "PMA"     -> [layer_coeff |-> 40, drainage_coeff |-> 100, mr_psi |-> 536500, mr_mpa |-> 3700, layer_type |-> "surface", short_name |-> "PMA"]
         [] m = "CTB"     -> [layer_coeff |-> 18, drainage_coeff |-> 100, mr_psi |-> 174000, mr_mpa |-> 1200, layer_type |-> "base", short_name |-> "CTB"]
         [] m = "MOD.CRB" -> [layer_coeff |-> 15, drainage_coeff |-> 100, mr_psi |-> 123250, mr_mpa |-> 850, layer_type |-> "base", short_name |-> "MOD.CRB"]
         [] m = "CAB"     -> [layer_coeff |-> 13, drainage_coeff |-> 100, mr_psi |-> 50750, mr_mpa |-> 350, layer_type |-> "base", short_name |-> "CAB"]
         [] m = "SCB"     -> [layer_coeff |-> 13, drainage_coeff |-> 100, mr_psi |-> 50750, mr_mpa |-> 350, layer_type |-> "base", short_name |-> "SCB"]
         [] m = "RAP"     -> [layer_coeff |-> 15, drainage_coeff |-> 100, mr_psi |-> 123250, mr_mpa |-> 850, layer_type |-> "base", short_name |-> "RAP"]
         [] m = "GSB"     -> [layer_coeff |-> 10, drainage_coeff |-> 100, mr_psi |-> 21750, mr_mpa |-> 150, layer_type |-> "subbase", short_name |-> "GSB"]
         [] m = "SM-A"    -> [layer_coeff |-> 8, drainage_coeff |-> 100, mr_psi |-> 14504, mr_mpa |-> 100, layer_type |-> "selected", short_name |-> "SM-A"]
         [] m = "NONE"    -> [layer_coeff |-> 0, drainage_coeff |-> 100, mr_psi |-> 0, mr_mpa |-> 0, layer_type |-> "none", short_name |-> "NONE"]]

\* calculate_sn_for_layer is a pure function of its five arguments.  Its
\* values at every argument tuple the allocator of this model can pass are
\* computed once, when the model starts, and kept in sn_memo, which no step
\* changes: a call is a look-up in that table.
VARIABLE sn_memo

SnDomain ==
    FormValues.W18 \X FormValues.Zr \X FormValues.So \X FormValues.delta_psi
        \X (FormValues.subgrade_mr \cup {MATERIALS[m].mr_psi : m \in LayerMaterials})

SnMemoInit ==
    sn_memo = [x \in SnDomain |-> calculate_sn_for_layer(x[1], x[2], x[3], x[4], x[5])]

\* a call of calculate_sn_for_layer
CallSn(W18, Zr, So, delta_psi, Mr) == sn_memo[<<W18, Zr, So, delta_psi, Mr>>]

\* dict.get(key, default)
get(d, key, default) == IF key \in DOMAIN d THEN d[key] ELSE default

\* Python float division n / d: ZeroDivisionError at d = 0, else the exact quotient
PyDiv(n, d) == IF d = 0 THEN Raise("ZeroDivisionError") ELSE [t |-> "num", n |-> n, d |-> d]

\* round(n/d, digits) for n >= 0, d > 0, as a count of 1/scale; long division
\* keeps the products small
Round(n, d, scale) == (n \div d) * scale + RoundTo(n % d, d, scale)

\* a layer list taken as it is, skip-material entries included
ActiveLayersUnfiltered(layers) == layers

\* active_layers = [l for l in layers if l['material'] != <the skip material>]
ActiveLayers(layers) == SelectSeq(layers, LAMBDA l : l.material # "NONE")

\* the modulus of active layer i itself, the subgrade's for the last layer
MrBelowOwn(active_layers, subgrade_mr, i) ==
    IF i = Len(active_layers) THEN subgrade_mr
    ELSE MATERIALS[active_layers[i].material].mr_psi

\* the support modulus under active layer i
MrBelow(active_layers, subgrade_mr, i) ==
    IF i = Len(active_layers) THEN subgrade_mr
    ELSE MATERIALS[active_layers[i + 1].material].mr_psi

\* solver calls whose support modulus depends on the thickness chosen for
\* the layer
SnValuesByThickness(W18, Zr, So, delta_psi, subgrade_mr, active_layers) ==
    [i \in 1..Len(active_layers) |->
        LET mr_below == IF active_layers[i].thickness_cm > 50 THEN subgrade_mr
                        ELSE MrBelow(active_layers, subgrade_mr, i)
        IN  [layer_index |-> i,
             mr_below |-> mr_below,
             sn_required |-> CallSn(W18, Zr, So, delta_psi, mr_below)]]

\* first loop: one solver call per active layer
SnValues(W18, Zr, So, delta_psi, subgrade_mr, active_layers) ==
    [i \in 1..Len(active_layers) |->
        LET mr_below == MrBelow(active_layers, subgrade_mr, i)
        IN  [layer_index |-> i,
             mr_below |-> mr_below,
             sn_required |-> CallSn(W18, Zr, So, delta_psi, mr_below)]]

\* sn_values[i]['sn_required'] if sn_values[i]['sn_required'] else 0
SnRequiredAtLayer(sn_required) ==
    IF sn_required.t = "num" /\ sn_required.v # 0 THEN sn_required.v ELSE 0

\* a minimum thickness that takes no credit for the layers above
MinThicknessNoCarry(a_i, m_i, sn_required_at_layer, cumulative_sn) ==
    IF a_i > 0 /\ m_i > 0
    THEN PyDiv((SNX \div 100) * sn_required_at_layer, a_i * m_i)
    ELSE [t |-> "num", n |-> 0, d |-> 1]

\* a minimum thickness computed without the test of a_i and m_i
MinThicknessUnguarded(a_i, m_i, sn_required_at_layer, cumulative_sn) ==
    PyDiv(Max(0, (SNX \div 100) * sn_required_at_layer - cumulative_sn), a_i * m_i)

\* minimum thickness in 1/10 cm (an exact quotient) of a layer with coefficients
\* a_i, m_i that must supply sn_required_at_layer over cumulative_sn
MinThicknessCm(a_i, m_i, sn_required_at_layer, cumulative_sn) ==
    IF a_i > 0 /\ m_i > 0
    THEN PyDiv(Max(0, (SNX \div 100) * sn_required_at_layer - cumulative_sn), a_i * m_i)
    ELSE [t |-> "num", n |-> 0, d |-> 1]

\* a comparison of the chosen thickness in cm with the minimum in inches
IsOkInInches(design_thickness_cm, min_thickness_cm) ==
    design_thickness_cm * min_thickness_cm.d * 254 >= min_thickness_cm.n * 100

\* is_ok = design_thickness_cm >= min_thickness_cm
IsOk(design_thickness_cm, min_thickness_cm) ==
    design_thickness_cm * min_thickness_cm.d >= min_thickness_cm.n

\* the report record of active layer i, given cumulative_sn of the layers above
LayerRecord(i, layer, sn_required, cumulative_sn, ac_sublayers) ==
    LET mat == MATERIALS[layer.material]
        a_i == get(layer, "layer_coeff", mat.layer_coeff)
        m_i == get(layer, "drainage_coeff", 100)
        sn_required_at_layer == SnRequiredAtLayer(sn_required)
        min_thickness_cm == MinThicknessCm(a_i, m_i, sn_required_at_layer, cumulative_sn)
        design_thickness_cm == layer.thickness_cm
        sn_contribution == a_i * design_thickness_cm * m_i
    IN  IF min_thickness_cm.t = "raise" THEN min_thickness_cm
        ELSE [t |-> "dict",
              layer_no |-> i,
              material |-> layer.material,
              short_name |-> mat.short_name,
              mr_psi |-> mat.mr_psi,
              mr_mpa |-> mat.mr_mpa,
              a_i |-> a_i,
              m_i |-> m_i,
              sn_required_at_layer |-> sn_required_at_layer,
              min_thickness_inch |-> Round(min_thickness_cm.n * 10, min_thickness_cm.d * 254, 100),
              min_thickness_cm |-> Round(min_thickness_cm.n, min_thickness_cm.d, 1),
              design_thickness_cm |-> design_thickness_cm,
              design_thickness_inch |-> Round(design_thickness_cm * 10, 254, 100),
              sn_contribution |-> Round(sn_contribution * 10, SNX \div 1000, 1),
              cumulative_sn |-> Round(cumulative_sn + sn_contribution, SNX, 100),
              is_ok |-> IsOk(design_thickness_cm, min_thickness_cm),
              ac_sublayers |-> IF i = 1 /\ ac_sublayers # None THEN ac_sublayers ELSE None]

\* a second loop that adds a_i * thickness * m_i to cumulative_sn with the
\* thickness in cm instead of inches
RECURSIVE LayerLoopInCentimetres(_, _, _, _, _, _)
LayerLoopInCentimetres(i, active_layers, sn_values, cumulative_sn, ac_sublayers, acc) ==
    IF i > Len(active_layers) THEN [t |-> "dict", layers |-> acc, cumulative_sn |-> cumulative_sn]
    ELSE LET rec == LayerRecord(i, active_layers[i], sn_values[i].sn_required,
                                cumulative_sn, ac_sublayers)
             layer == active_layers[i]
             a_i == get(layer, "layer_coeff", MATERIALS[layer.material].layer_coeff)
             m_i == get(layer, "drainage_coeff", 100)
         IN  IF rec.t = "raise" THEN rec
             ELSE LayerLoopInCentimetres(i + 1, active_layers, sn_values,
                                         cumulative_sn
                                           + (a_i * layer.thickness_cm * m_i * 254) \div 100,
                                         ac_sublayers, Append(acc, rec))

\* a second loop that sets cumulative_sn to the contribution of the layer
\* instead of adding the contribution to it
RECURSIVE LayerLoopOverwriting(_, _, _, _, _, _)
LayerLoopOverwriting(i, active_layers, sn_values, cumulative_sn, ac_sublayers, acc) ==
    IF i > Len(active_layers) THEN [t |-> "dict", layers |-> acc, cumulative_sn |-> cumulative_sn]
    ELSE LET rec == LayerRecord(i, active_layers[i], sn_values[i].sn_required,
                                cumulative_sn, ac_sublayers)
             layer == active_layers[i]
             a_i == get(layer, "layer_coeff", MATERIALS[layer.material].layer_coeff)
             m_i == get(layer, "drainage_coeff", 100)
         IN  IF rec.t = "raise" THEN rec
             ELSE LayerLoopOverwriting(i + 1, active_layers, sn_values,
                                       a_i * layer.thickness_cm * m_i,
                                       ac_sublayers, Append(acc, rec))

\* second loop: the records of active layers i.., with cumulative_sn carried
\* downward; the exact cumulative SN of all layers is returned with them
RECURSIVE LayerLoop(_, _, _, _, _, _)
LayerLoop(i, active_layers, sn_values, cumulative_sn, ac_sublayers, acc) ==
    IF i > Len(active_layers) THEN [t |-> "dict", layers |-> acc, cumulative_sn |-> cumulative_sn]
    ELSE LET rec == LayerRecord(i, active_layers[i], sn_values[i].sn_required,
                                cumulative_sn, ac_sublayers)
             layer == active_layers[i]
             a_i == get(layer, "layer_coeff", MATERIALS[layer.material].layer_coeff)
             m_i == get(layer, "drainage_coeff", 100)
         IN  IF rec.t = "raise" THEN rec
             ELSE LayerLoop(i + 1, active_layers, sn_values,
                            cumulative_sn + a_i * layer.thickness_cm * m_i,
                            ac_sublayers, Append(acc, rec))

\* the first exception among the solver calls, None when there is none
FirstRaise(sn_values, total) ==
    LET bad == {i \in DOMAIN sn_values : sn_values[i].sn_required.t = "raise"}
    IN  IF bad # {} THEN sn_values[CHOOSE i \in bad : \A j \in bad : i <= j].sn_required
        ELSE IF total.t = "raise" THEN total
        ELSE None

calculate_layer_thicknesses(W18, Zr, So, delta_psi, subgrade_mr, layers, ac_sublayers) ==
    LET results == [t |-> "dict", layers |-> << >>, sn_values |-> << >>,
                    subgrade_mr |-> subgrade_mr, total_sn_required |-> None,
                    total_sn_provided |-> 0, ac_sublayers |-> ac_sublayers]
        active_layers == ActiveLayers(layers)
        sn_values == SnValues(W18, Zr, So, delta_psi, subgrade_mr, active_layers)
        total == CallSn(W18, Zr, So, delta_psi, subgrade_mr)
        loop == LayerLoop(1, active_layers, sn_values, 0, ac_sublayers, << >>)
    IN  IF active_layers = << >> THEN results
        ELSE IF FirstRaise(sn_values, total) # None THEN FirstRaise(sn_values, total)
        ELSE IF loop.t = "raise" THEN loop
        ELSE [results EXCEPT !.sn_values = sn_values,
                             !.total_sn_required = total,
                             !.layers = loop.layers,
                             !.total_sn_provided = Round(loop.cumulative_sn, SNX, 100)]

\* check_design(sn_required, sn_provided) of the flexible application, on the
\* totals of a report (in 1/100); the message repeats the two numbers and the
\* verdict and is left out
check_design(sn_required, sn_provided) ==
    IF sn_required = None
    THEN [status |-> "ERROR", passed |-> FALSE, safety_margin |-> None]
    ELSE [status |-> IF sn_provided >= sn_required.v THEN "OK" ELSE "NG",
          passed |-> sn_provided >= sn_required.v,
          safety_margin |-> Num(sn_provided - sn_required.v)]

(***************************************************************************)
(* Rigid pavement: calculate_aashto_rigid_w18, calculate_aashto_detailed   *)
(* and check_design of src/Claude-AI-Rigid.py and its copies               *)
(*                                                                         *)
(* Units: d_inch, delta_psi, pt and j in 1/10; zr in 1/1000; so and cd in  *)
(* 1/100; sc_psi, ec_psi, k_pci and W18 as integers.                       *)
(***************************************************************************)

\* math.log10(n/d) for d > 0: "math domain error" unless n/d > 0
math_log10(n, d) == IF n <= 0 THEN Raise("ValueError") ELSE Num(Log10Rat(n, d))

\* d_inch ** 0.75: 0.0 at 0, a complex number for a negative base
d_power_of(d_inch) ==
    IF d_inch = 0 THEN Num(0)
    ELSE IF d_inch < 0 THEN [t |-> "complex"]
    ELSE Num(ScaleExp2(1, (3 * Log2Rat(d_inch, 10)) \div 4))

\* 18.42 / (ec_k_ratio ** 0.25) with ec_k_ratio = ec_psi / k_pci
support_term(ec_psi, k_pci) ==
    IF k_pci = 0 THEN Raise("ZeroDivisionError")
    ELSE IF ec_psi = 0 THEN Raise("ZeroDivisionError")
    ELSE IF (ec_psi < 0) # (k_pci < 0) THEN [t |-> "complex"]
    ELSE Num(ScaleExp2(1842, -(Log2Rat(Abs(ec_psi), Abs(k_pci)) \div 4)) \div 100)

\* log10(delta_psi / 3.0) / (1 + 1.624e7 / (d_inch + 1) ** 8.46); a quotient
\* whose denominator exceeds 2^TinyExp is below the fixed point resolution
term3_of(numerator3, d_inch) ==
    LET y == Log2Int(16240000) - (846 * Log2Rat(d_inch + 10, 10)) \div 100
    IN  IF y >= (FracBits + 1) * FP THEN 0
        ELSE DivT(numerator3 * FP, FP + ScaleExp2(1, y))

\* 10 ** log10_w18 as a whole number of ESAL
TenPower(log10_w18) ==
    LET y == DivT(log10_w18 * 4096, 1233)
        e == IF y >= 0 THEN y \div FP ELSE -((-y + FP - 1) \div FP)
        m == Exp2Frac(y - e * FP, 1)
    IN  IF e >= FracBits THEN m * Pow2(e - FracBits) ELSE m \div Pow2(FracBits - e)

\* return (float('-inf'), 0)
NoCapacity == [t |-> "tuple", log10_w18 |-> NegInf, w18 |-> 0]

\* the strength/support term without the positivity test of its ratio:
\* inner_term = numerator4 / denominator4, then math.log10(inner_term)
StrengthTermUnguarded(pt, numerator4, denominator4) ==
    IF denominator4 = 0 THEN Raise("ZeroDivisionError")
    ELSE IF numerator4 = 0 \/ (numerator4 > 0) # (denominator4 > 0) THEN Raise("ValueError")
    ELSE Num(DivT((4220 - 32 * pt) * Log10Rat(Abs(numerator4), Abs(denominator4)), 1000))

\* (4.22 - 0.32 * pt) * log10_inner, for the outcome of math.log10(inner_term)
TimesStrengthCoefficient(pt, log10_inner) ==
    IF log10_inner.t = "raise" THEN log10_inner
    ELSE Num(DivT((4220 - 32 * pt) * log10_inner.v, 1000))

\* term4 = (4.22 - 0.32 * pt) * log10(numerator4 / denominator4), or None
\* where the function returns (float('-inf'), 0): numerator4 <= 0 or
\* denominator4 <= 0 (inner_term, a quotient of two positive numbers, is
\* positive, so the second test returns nothing more)
StrengthTerm(pt, numerator4, denominator4) ==
    IF numerator4 <= 0 \/ denominator4 <= 0 THEN None
    ELSE TimesStrengthCoefficient(pt, math_log10(numerator4, denominator4))

\* numerator4 = sc_psi * cd * (d_power - 1.132)
Numerator4(sc_psi, cd, d_power) == DivT(sc_psi * cd, 100) * (d_power.v - (1132 * FP) \div 1000)

\* denominator4 = 215.63 * j * (d_power - 18.42 / (ec_k_ratio ** 0.25))
Denominator4(j, d_power, support) == DivT(21563 * j, 1000) * (d_power.v - support.v)

\* (log10_w18, 10 ** log10_w18)
CapacityTuple(log10_w18) ==
    [t |-> "tuple", log10_w18 |-> Fin(log10_w18), w18 |-> TenPower(log10_w18)]

\* what calculate_aashto_rigid_w18 returns or raises, statement by statement,
\* given the outcome of each of its sub-expressions
RigidOutcome(log_d1, numerator3, d_power, support, numerator4, term4, term123) ==
    IF log_d1.t = "raise" THEN log_d1
    ELSE IF numerator3.t = "raise" THEN numerator3
    ELSE IF support.t = "raise" THEN support
    ELSE IF d_power.t = "complex" THEN Raise("TypeError")
    ELSE IF support.t = "complex"
         THEN (IF numerator4 <= 0 THEN NoCapacity ELSE Raise("TypeError"))
    ELSE IF term4 = None THEN NoCapacity
    ELSE IF term4.t = "raise" THEN term4
    ELSE CapacityTuple(term123 + term4.v)

\* the terms of the equation from the outcomes of log10(d_inch + 1),
\* log10(delta_psi / 3.0), d_inch ** 0.75 and 18.42 / ec_k_ratio ** 0.25
RigidTerms(log_d1, numerator3, d_power, support, d_inch, pt, zr, so, sc_psi, cd, j) ==
    RigidOutcome(log_d1, numerator3, d_power, support,
                 Numerator4(sc_psi, cd, d_power),
                 StrengthTerm(pt, Numerator4(sc_psi, cd, d_power),
                              Denominator4(j, d_power, support)),
                 DivT(zr * so * (FP \div 16), 100000 \div 16)
                   + (DivT(735 * log_d1.v, 100) - (6 * FP) \div 100)
                   + term3_of(numerator3.v, d_inch))

calculate_aashto_rigid_w18(d_inch, delta_psi, pt, zr, so, sc_psi, cd, j, ec_psi, k_pci) ==
    RigidTerms(math_log10(d_inch + 10, 10), math_log10(delta_psi, 30),
               d_power_of(d_inch), support_term(ec_psi, k_pci),
               d_inch, pt, zr, so, sc_psi, cd, j)

\* calculate_aashto_detailed (src/Cal-Report-Rigid-Pavement.py): the same
\* terms, with term4 = float('-inf') and w18 = 0 instead of the early return
calculate_aashto_detailed(d_inch, delta_psi, pt, zr, so, sc_psi, cd, j, ec_psi, k_pci) ==
    LET r == calculate_aashto_rigid_w18(d_inch, delta_psi, pt, zr, so, sc_psi, cd, j, ec_psi, k_pci)
    IN  IF r.t = "tuple" THEN [t |-> "dict", result |-> [log10_w18 |-> r.log10_w18, w18 |-> r.w18]]
        ELSE r

\* greatest common divisor of two naturals, not both 0
RECURSIVE Gcd(_, _)
Gcd(a, b) == IF b = 0 THEN a ELSE Gcd(b, a % b)

\* the float n / d, d > 0, n >= 0, as a fraction in lowest terms
Quotient(n, d) == [k |-> "fin", n |-> n \div Gcd(n, d), d |-> d \div Gcd(n, d)]

\* the division of check_design without its test of w18_required
check_design_unguarded(w18_required, w18_capacity) ==
    IF w18_required = 0 THEN Raise("ZeroDivisionError")
    ELSE [t |-> "tuple", passed |-> w18_capacity >= w18_required,
          ratio |-> Quotient(w18_capacity, w18_required)]

\* check_design(w18_required, w18_capacity) of the rigid applications
check_design_rigid(w18_required, w18_capacity) ==
    LET ratio == IF w18_required > 0 THEN Quotient(w18_capacity, w18_required) ELSE PosInf
        passed == w18_capacity >= w18_required
    IN  [t |-> "tuple", passed |-> passed, ratio |-> ratio]

(***************************************************************************)
(* Nomograph axes: log_map / log_unmap and the calibration of              *)
(* src/GPT-k-eff.py, interpolate_log_scale of src/Germini-Kcom-LS.py       *)
(*                                                                         *)
(* Positions are float64 numbers held exactly: a sign and a magnitude in    *)
(* limbs, in units of 2^-60, rounded to 53 significant bits after every    *)
(* operation as the hardware does.  A position typed with one decimal is   *)
(* written in 1/10 and converted by FromTenths.  Logarithms, the ratio of  *)
(* two logarithms or of two distances, and the values read off an axis are *)
(* fixed point numbers; calibration and slider values (psi, inch, pci) are *)
(* whole numbers.                                                          *)
(***************************************************************************)

\* numpy float64 arithmetic: a / b for fixed point a and b
XDiv(a, b) ==
    IF IsNaN(a) \/ IsNaN(b) THEN NaN
    ELSE IF a.k = "inf" THEN (IF b.k = "inf" THEN NaN
                              ELSE IF b.v >= 0 THEN a ELSE XNeg(a))
    ELSE IF b.k = "inf" THEN Fin(0)
    ELSE IF b.v = 0 THEN (IF a.v = 0 THEN NaN ELSE IF a.v > 0 THEN PosInf ELSE NegInf)
    ELSE Fin(DivT(a.v * FP, b.v))

\* a * b for fixed point a and b
XMul(a, b) ==
    IF IsNaN(a) \/ IsNaN(b) THEN NaN
    ELSE IF a.k = "inf" \/ b.k = "inf"
         THEN (IF a.v = 0 \/ b.v = 0 THEN NaN
               ELSE IF (a.v > 0) = (b.v > 0) THEN PosInf ELSE NegInf)
    ELSE Fin(DivT(a.v * b.v, FP))

\* 10 ** e, in fixed point
XTenPower(e) ==
    IF IsNaN(e) THEN NaN
    ELSE IF e.k = "inf" THEN (IF e.v > 0 THEN PosInf ELSE Fin(0))
    ELSE Fin(ScaleExp2(1, DivT(e.v * 4096, 1233)))

\* the base of a limb (15 bits)
LimbBase == 2^15

\* the number of limbs of a magnitude: one for the whole part, four for the
\* fraction (60 bits)
Limbs == 1 + 4

\* -1, 0, 1 as the magnitude a is below, equal to or above b
MagCmp(a, b) ==
    LET RECURSIVE From(_)
        From(i) == IF i > Limbs THEN 0
                   ELSE IF a[i] > b[i] THEN 1
                   ELSE IF a[i] < b[i] THEN -1
                   ELSE From(i + 1)
    IN  From(1)

\* a + b, limb by limb from the lowest with the carry
MagAdd(a, b) ==
    LET RECURSIVE From(_, _)
        From(i, carry) ==
            IF i = 1 THEN << a[1] + b[1] + carry >>
            ELSE Append(From(i - 1, (a[i] + b[i] + carry) \div LimbBase),
                        (a[i] + b[i] + carry) % LimbBase)
    IN  From(Limbs, 0)

\* a - b for a >= b, limb by limb from the lowest with the borrow
MagSub(a, b) ==
    LET RECURSIVE From(_, _)
        From(i, borrow) ==
            IF i = 1 THEN << a[1] - b[1] - borrow >>
            ELSE IF a[i] - b[i] - borrow < 0
                 THEN Append(From(i - 1, 1), a[i] - b[i] - borrow + LimbBase)
                 ELSE Append(From(i - 1, 0), a[i] - b[i] - borrow)
    IN  From(Limbs, 0)

\* the number of bits of a magnitude, counted from its lowest fraction bit
MagBitLen(m) ==
    LET RECURSIVE From(_)
        From(i) == IF i > Limbs THEN 0
                   ELSE IF m[i] > 0
                        THEN FloorLog2(LimbBase) * (Limbs - i) + FloorLog2(m[i]) + 1
                        ELSE From(i + 1)
    IN  From(1)

\* 2^d as a magnitude, for d below two limbs
MagBit(d) ==
    [i \in 1..Limbs |->
        IF d < FloorLog2(LimbBase) /\ i = Limbs THEN Pow2(d)
        ELSE IF d >= FloorLog2(LimbBase) /\ i = Limbs - 1 THEN Pow2(d - FloorLog2(LimbBase))
        ELSE 0]

\* the float64 nearest to the exact value m (+ a little more when sticky): 53
\* significant bits are kept, round-to-nearest, ties to even.  d bits are
\* dropped: low is their value, high is m without them, odd is bit d of m.
MagRound(m, sticky) ==
    LET bits == FloorLog2(LimbBase)
        d == MagBitLen(m) - 53
        low == IF d < bits THEN m[Limbs] % Pow2(d)
               ELSE (m[Limbs - 1] % Pow2(d - bits)) * LimbBase + m[Limbs]
        high == [i \in 1..Limbs |->
                    IF i = Limbs THEN (IF d < bits THEN m[i] - (m[i] % Pow2(d)) ELSE 0)
                    ELSE IF i = Limbs - 1 /\ d >= bits THEN m[i] - (m[i] % Pow2(d - bits))
                    ELSE m[i]]
        odd == IF d < bits THEN (m[Limbs] \div Pow2(d)) % 2 = 1
               ELSE (m[Limbs - 1] \div Pow2(d - bits)) % 2 = 1
    IN  IF d <= 0 THEN m
        ELSE IF low > Pow2(d - 1) \/ (low = Pow2(d - 1) /\ (sticky \/ odd))
             THEN MagAdd(high, MagBit(d))
             ELSE high

\* a finite float64 of sign v (-1, 0, 1) and magnitude m
F64(v, m) ==
    IF \A i \in 1..Limbs : m[i] = 0 THEN [k |-> "fin", v |-> 0, m |-> m]
    ELSE [k |-> "fin", v |-> v, m |-> m]

\* float64 a + b
FAdd(a, b) ==
    IF IsNaN(a) \/ IsNaN(b) THEN NaN
    ELSE IF a.k = "inf" /\ b.k = "inf" THEN (IF a.v = b.v THEN a ELSE NaN)
    ELSE IF a.k = "inf" THEN a
    ELSE IF b.k = "inf" THEN b
    ELSE IF a.v = 0 THEN b
    ELSE IF b.v = 0 THEN a
    ELSE IF a.v = b.v THEN F64(a.v, MagRound(MagAdd(a.m, b.m), FALSE))
    ELSE IF MagCmp(a.m, b.m) >= 0 THEN F64(a.v, MagRound(MagSub(a.m, b.m), FALSE))
    ELSE F64(b.v, MagRound(MagSub(b.m, a.m), FALSE))

FSub(a, b) == FAdd(a, XNeg(b))

\* float(n / 10) for a decimal with one digit after the point: the limbs of
\* the fraction by long division, the last remainder is the sticky part
FromTenths(n) ==
    LET RECURSIVE Fraction(_, _)
        Fraction(rem, i) ==
            IF i > Limbs THEN << rem >>
            ELSE << (rem * LimbBase) \div 10 >> \o Fraction((rem * LimbBase) % 10, i + 1)
        l == Fraction(Abs(n) % 10, 2)
    IN  F64(IF n < 0 THEN -1 ELSE 1,
            MagRound(<< Abs(n) \div 10 >> \o SubSeq(l, 1, Limbs - 1), l[Limbs] # 0))

\* float64 f times the fixed point number x: the limbs of f times |x| with the
\* carry, doubled and moved one limb down (a division by FP)
FTimes(x, f) ==
    LET RECURSIVE Times(_, _)
        Times(i, carry) ==
            IF i = 1 THEN << f.m[1] * Abs(x.v) + carry >>
            ELSE Append(Times(i - 1, (f.m[i] * Abs(x.v) + carry) \div LimbBase),
                        (f.m[i] * Abs(x.v) + carry) % LimbBase)
        y == MagAdd(Times(Limbs, 0), Times(Limbs, 0))
        down == [i \in 1..Limbs |-> IF i = 1 THEN y[1] \div LimbBase
                                    ELSE IF i = 2 THEN y[1] % LimbBase
                                    ELSE y[i - 1]]
    IN  IF IsNaN(x) \/ IsNaN(f) THEN NaN
        ELSE IF x.k = "inf" \/ f.k = "inf"
             THEN (IF x.v = 0 \/ f.v = 0 THEN NaN
                   ELSE IF (x.v > 0) = (f.v > 0) THEN PosInf ELSE NegInf)
        ELSE F64(IF (x.v > 0) = (f.v > 0) THEN 1 ELSE -1, MagRound(down, y[Limbs] # 0))

\* float64 a / b, as a fixed point number: b is doubled k times to exceed a,
\* then one quotient bit per step
FDiv(a, b) ==
    LET RECURSIVE ShiftCount(_, _)
        ShiftCount(d, k) ==
            IF MagCmp(d, a.m) > 0 THEN k ELSE ShiftCount(MagAdd(d, d), k + 1)
        RECURSIVE Doubled(_, _)
        Doubled(m, k) == IF k = 0 THEN m ELSE Doubled(MagAdd(m, m), k - 1)
        RECURSIVE Divide(_, _, _, _)
        Divide(r, d, steps, q) ==
            IF steps = 0 THEN q
            ELSE IF MagCmp(MagAdd(r, r), d) >= 0
                 THEN Divide(MagSub(MagAdd(r, r), d), d, steps - 1, 2 * q + 1)
                 ELSE Divide(MagAdd(r, r), d, steps - 1, 2 * q)
        k == ShiftCount(b.m, 0)
    IN  IF IsNaN(a) \/ IsNaN(b) THEN NaN
        ELSE IF a.k = "inf" THEN (IF b.k = "inf" THEN NaN
                                  ELSE IF b.v >= 0 THEN a ELSE XNeg(a))
        ELSE IF b.k = "inf" THEN Fin(0)
        ELSE IF b.v = 0 THEN (IF a.v = 0 THEN NaN ELSE IF a.v > 0 THEN PosInf ELSE NegInf)
        ELSE Fin(a.v * b.v * Divide(a.m, Doubled(b.m, k), k + FracBits, 0))

\* the mapping without its anchor: the distance from pmin instead of the
\* position
log_map_unanchored(v, vmin, vmax, pmin, pmax) ==
    FTimes(XDiv(XSub(np_log10(v, 1), np_log10(vmin, 1)),
                XSub(np_log10(vmax, 1), np_log10(vmin, 1))),
           FSub(pmax, pmin))

\* the position of the value v on the axis
log_map(v, vmin, vmax, pmin, pmax) ==
    FAdd(pmin,
         FTimes(XDiv(XSub(np_log10(v, 1), np_log10(vmin, 1)),
                     XSub(np_log10(vmax, 1), np_log10(vmin, 1))),
                FSub(pmax, pmin)))

\* the inverse of a linear axis: right at both ends of the axis only
log_unmap_linear(p, vmin, vmax, pmin, pmax) ==
    XAdd(Fin(vmin * FP),
         XMul(FDiv(FSub(p, pmin), FSub(pmax, pmin)), Fin((vmax - vmin) * FP)))

\* the value at the position p of the axis
log_unmap(p, vmin, vmax, pmin, pmax) ==
    XTenPower(XAdd(np_log10(vmin, 1),
                   XMul(FDiv(FSub(p, pmin), FSub(pmax, pmin)),
                        XSub(np_log10(vmax, 1), np_log10(vmin, 1)))))

\* interpolate_log_scale(pixel, p1, v1, p2, v2)
interpolate_log_scale(pixel, p1, v1, p2, v2) ==
    IF v1 <= 0 \/ v2 <= 0 THEN Fin(0)
    ELSE XTenPower(XAdd(Fin(Log10Rat(v1, 1)),
                        XMul(IF p2 # p1 THEN FDiv(FSub(pixel, p1), FSub(p2, p1)) ELSE Fin(0),
                             Fin(Log10Rat(v2, 1) - Log10Rat(v1, 1)))))

\* the empty dict {}
EmptyDict == [t |-> "empty"]

\* the axes a click can be added to
AxisKeys == {"Mr", "DSB", "k"}

\* the dict that Build Calibration stores in st.session_state.CAL
BuiltCalibration(points) ==
    [t |-> "dict",
     Mr  |-> [vmin |-> 1000, vmax |-> 20000, pmin |-> points["Mr"][2][2], pmax |-> points["Mr"][1][2]],
     DSB |-> [vmin |-> 4, vmax |-> 18, pmin |-> points["DSB"][1][1], pmax |-> points["DSB"][2][1]],
     k   |-> [vmin |-> 50, vmax |-> 2000, pmin |-> points["k"][1][1], pmax |-> points["k"][2][1]]]

\* the end of every script run: st.session_state.CAL = json.load(uploaded_calib)
\* when the uploader holds a file, whatever the file holds; cal is the value
\* of st.session_state.CAL before these lines
LoadCalibrationFile(uploaded, cal) ==
    IF uploaded # None THEN uploaded ELSE cal

\* log_map(v, **axis) and log_unmap(p, **axis)
MapOn(v, axis) ==
    log_map(v, axis.vmin, axis.vmax, FromTenths(axis.pmin), FromTenths(axis.pmax))

UnmapOn(p, axis) ==
    log_unmap(p, axis.vmin, axis.vmax, FromTenths(axis.pmin), FromTenths(axis.pmax))

\* a reading whose k is read off the k axis at the position of Mr
ReadingAtMr(cal, Mr, DSB) ==
    LET x_dsb == MapOn(DSB, cal.DSB)
        y_mr == MapOn(Mr, cal.Mr)
    IN  [t |-> "shown", Mr |-> Mr, DSB |-> DSB,
         x_dsb |-> x_dsb, y_mr |-> y_mr, k_inf |-> UnmapOn(y_mr, cal.k)]

\* Normal Mode with a calibration: the sliders Mr, DSB and the estimate of
\* the composite k shown for them
NormalModeReading(cal, Mr, DSB) ==
    LET x_dsb == MapOn(DSB, cal.DSB)
        y_mr == MapOn(Mr, cal.Mr)
    IN  [t |-> "shown", Mr |-> Mr, DSB |-> DSB,
         x_dsb |-> x_dsb, y_mr |-> y_mr, k_inf |-> UnmapOn(x_dsb, cal.k)]

(***************************************************************************)
(* Life-cycle cost: calculate_npv_ac of src/Claude-NPV-cost.py             *)
(*                                                                         *)
(* Units: costs in 1/100 million baht per km, the discount rate in 1/1000  *)
(* (50 is 5 %), years as integers; present values in 1/(100 * FP) million  *)
(* baht, with the discount factor 1 / (1 + r) ** year in fixed point.      *)
(***************************************************************************)

\* calculate_npv_ac(...): (total_npv, cash_flows); activities is the list
\* that the code joins with ', '
calculate_npv_ac(initial_cost, seal_cost, overlay_cost, design_life, analysis_period, discount_rate) ==
    LET Activity(year) ==
            IF year % design_life = 0 THEN "reconstruction"
            ELSE IF year > 0 /\ year % 9 = 0 THEN "Overlay"
            ELSE IF year > 0 /\ year % 3 = 0 THEN "Seal Coating"
            ELSE "-"
        Cost(year) ==
            CASE Activity(year) = "reconstruction" -> initial_cost
              [] Activity(year) = "Overlay" -> overlay_cost
              [] Activity(year) = "Seal Coating" -> seal_cost
              [] OTHER -> 0
        RECURSIVE Years(_, _, _, _)
        Years(year, factor, total_npv, cash_flows) ==
            IF year > analysis_period
            THEN [t |-> "tuple", total_npv |-> total_npv, cash_flows |-> cash_flows]
            ELSE Years(year + 1, (factor * ((FP * 1000) \div (1000 + discount_rate))) \div FP,
                       total_npv + Cost(year) * factor,
                       Append(cash_flows,
                              [year |-> year, cost |-> Cost(year), pv |-> Cost(year) * factor,
                               cumulative_pv |-> total_npv + Cost(year) * factor,
                               activities |-> IF Activity(year) = "-" THEN << >>
                                              ELSE << Activity(year) >>]))
    IN  IF analysis_period >= 0 /\ design_life = 0 THEN Raise("ZeroDivisionError")
        ELSE Years(0, FP, 0, << >>)

(***************************************************************************)
(* State.  Each application keeps its own state; a specification below     *)
(* runs one of them and leaves the others idle.                             *)
(*   args, calc_results    flexible design: the arguments and the result   *)
(*                         of the latest calculate_layer_thicknesses call  *)
(*   solver_args,          a call of calculate_sn_for_layer and what it    *)
(*   solver_return         returned                                        *)
(*   rigid_args,           rigid design: the form values and what the      *)
(*   rigid_result          script computed from them                       *)
(*   mode, calib_points,   nomograph: the radio button, the session state, *)
(*   CAL, reading,         the estimate shown and the file held by the     *)
(*   uploaded_calib,       "Load Calibration File" uploader (None: no      *)
(*   uploaded_file         file), the image held by the image uploader     *)
(*                         (None: the chart is nomograph.png)              *)
(*   reading_memo          the values of NormalModeReading, computed once  *)
(*   axis, value,          one axis: its calibration, the value mapped     *)
(*   position, unmapped    (None: a position was picked), the position and *)
(*                         the value read back at it                       *)
(*   npv_args, npv_return  life-cycle cost: the arguments and the result   *)
(*                         of the latest calculate_npv_ac call             *)
(***************************************************************************)

VARIABLES args, calc_results, solver_args, solver_return, rigid_args, rigid_result,
          mode, calib_points, CAL, reading, uploaded_calib, uploaded_file,
          reading_memo, axis, value, position, unmapped,
          npv_args, npv_return, uploaded_json, session_state, rerun,
          uploaded_files, merged_doc, jpcp_calculations, sessions, now

vars == << args, calc_results, sn_memo, solver_args, solver_return, rigid_args,
           rigid_result, mode, calib_points, CAL, reading, uploaded_calib,
           uploaded_file, reading_memo,
           axis, value, position, unmapped, npv_args, npv_return,
           uploaded_json, session_state, rerun,
           uploaded_files, merged_doc, jpcp_calculations, sessions, now >>

flexVars == << args, calc_results, sn_memo >>

solverVars == << solver_args, solver_return >>

rigidVars == << rigid_args, rigid_result >>

nomoVars == << mode, calib_points, CAL, reading, uploaded_calib, uploaded_file,
              reading_memo >>

axisVars == << axis, value, position, unmapped >>

\* a call that has not returned yet
Pending == [t |-> "pending"]

FlexIdle ==
    /\ args = [W18 |-> 5000000, Zr |-> -1282, So |-> 45, delta_psi |-> 17,
               subgrade_mr |-> 35250, layers |-> << >>, ac_sublayers |-> None]
    /\ calc_results = None
    /\ sn_memo = << >>

SolverIdle ==
    /\ solver_args = None
    /\ solver_return = None

RigidIdle ==
    /\ rigid_args = [d_inch |-> 100, pt |-> 20, zr |-> -1282, so |-> 35, sc_psi |-> 650,
                     cd |-> 100, j |-> 32, ec_psi |-> 4000000, k_pci |-> 200,
                     w18_design |-> 1000000]
    /\ rigid_result = None

NomoIdle ==
    /\ mode = "Normal Mode"
    /\ calib_points = [key \in AxisKeys |-> << >>]
    /\ CAL = EmptyDict
    /\ reading = None
    /\ uploaded_calib = None
    /\ uploaded_file = None
    /\ reading_memo = << >>

AxisIdle ==
    /\ axis = None
    /\ value = None
    /\ position = None
    /\ unmapped = None

\* the other tools of the repository, before anything is done in them
toolVars == << npv_args, npv_return, uploaded_json, session_state, rerun,
               uploaded_files, merged_doc, jpcp_calculations, sessions, now >>

ToolsIdle ==
    /\ npv_args = [initial_cost |-> 4689, seal_cost |-> 176, overlay_cost |-> 880,
                   design_life |-> 20, analysis_period |-> 20, discount_rate |-> 50]
    /\ npv_return = None
    /\ uploaded_json = None
    /\ session_state = [k_inf_result |-> 500, last_uploaded_file |-> None,
                        calc_project_name |-> "", calc_w18 |-> 500000]
    /\ rerun = FALSE
    /\ uploaded_files = [key \in {"truck_factor", "esals", "ac_design", "concrete_design",
                                   "subgrade_modulus", "cost_estimate"} |-> None]
    /\ merged_doc = None
    /\ jpcp_calculations = None
    /\ sessions = [s \in 1..2 |-> [calculations |-> << >>, calc_record |-> None,
                                    all_data |-> None, pc |-> "idle",
                                    deleted |-> None, raised |-> None]]
    /\ now = 0

\* every application as it starts, nothing done in any of them
InitTools == FlexIdle /\ SolverIdle /\ RigidIdle /\ NomoIdle /\ AxisIdle /\ ToolsIdle

(***************************************************************************)
(* Spec: flexible design.  Each step is one more call of                   *)
(* calculate_layer_thicknesses whose arguments differ from the previous    *)
(* call's in one place, as when one widget of the form changes and the     *)
(* script runs again.  The layer lists include the short lists and the     *)
(* zero coefficients that only a direct caller of the function can pass    *)
(* (the form asks for 2 to 6 layers, a_i >= 0.01 and m_i >= 0.5).          *)
(***************************************************************************)

Calculate(a) ==
    calculate_layer_thicknesses(a.W18, a.Zr, a.So, a.delta_psi, a.subgrade_mr,
                                a.layers, a.ac_sublayers)

Init ==
    /\ args = [W18 |-> 5000000, Zr |-> -1282, So |-> 45, delta_psi |-> 17,
               subgrade_mr |-> 35250, layers |-> << >>, ac_sublayers |-> None]
    /\ SnMemoInit
    /\ calc_results = Calculate(args)
    /\ SolverIdle /\ RigidIdle /\ NomoIdle /\ AxisIdle /\ ToolsIdle

Rerun(a) ==
    /\ args' = a
    /\ calc_results' = Calculate(a)
    /\ UNCHANGED << sn_memo, solverVars, rigidVars, nomoVars, axisVars, toolVars >>

SetW18 == \E w \in FormValues.W18 : Rerun([args EXCEPT !.W18 = w])

SetZr == \E z \in FormValues.Zr : Rerun([args EXCEPT !.Zr = z])

SetSo == \E s \in FormValues.So : Rerun([args EXCEPT !.So = s])

SetDeltaPsi == \E d \in FormValues.delta_psi : Rerun([args EXCEPT !.delta_psi = d])

SetSubgradeMr == \E m \in FormValues.subgrade_mr : Rerun([args EXCEPT !.subgrade_mr = m])

AddLayer ==
    /\ Len(args.layers) < MaxLayers
    /\ \E l \in LayerChoices : Rerun([args EXCEPT !.layers = Append(@, l)])

RemoveLayer ==
    /\ args.layers # << >>
    /\ Rerun([args EXCEPT !.layers = SubSeq(@, 1, Len(@) - 1)])

SetThickness ==
    \E i \in DOMAIN args.layers, th \in FormValues.thickness_cm :
        Rerun([args EXCEPT !.layers[i] = WithThickness(@, th)])

Next ==
    \/ SetW18
    \/ SetZr
    \/ SetSo
    \/ SetDeltaPsi
    \/ SetSubgradeMr
    \/ AddLayer
    \/ RemoveLayer
    \/ SetThickness

Spec == Init /\ [][Next]_vars

(***************************************************************************)
(* SpecMinimum: a flexible design that is brought to its minimum           *)
(* thicknesses: layers are added with a first thickness, and the designer  *)
(* then enters for a layer the minimum thickness that the report of the    *)
(* latest run gives for it (0 included, which only a direct caller of the  *)
(* function can pass: the form starts at 1 cm).                            *)
(***************************************************************************)

AddDesignLayer ==
    /\ Len(args.layers) < MaxLayers
    /\ \E l \in DesignLayerTemplates :
           Rerun([args EXCEPT !.layers = Append(@, WithThickness(l, 50))])

\* the places in the layer list of the active layers, in order
ActivePlaces(layers) ==
    SelectSeq([i \in DOMAIN layers |-> i], LAMBDA i : layers[i].material # "NONE")

\* the thickness of a layer is set to the minimum thickness that the report
\* of the latest run gives for it (min_thickness_cm, to 0.1 cm)
SetThicknessToMinimum ==
    /\ calc_results.t = "dict"
    /\ \E i \in DOMAIN calc_results.layers :
           Rerun([args EXCEPT !.layers[ActivePlaces(args.layers)[i]] =
                      WithThickness(@, calc_results.layers[i].min_thickness_cm)])

\* the checkbox that splits the AC surface into sublayers: when it is set the
\* run stores a dict it has just made (wearing, binder and base course, and
\* their total, which is the thickness of layer 1) in
\* st.session_state['ac_sublayers'] and passes it to the call, and None when
\* it is not.  id names the dict object: two dicts with the same id are one
\* object, a copy has an id of its own.
SetAcSublayers ==
    /\ args.layers # << >>
    /\ \E sub \in { None, [t |-> "dict", id |-> "st.session_state['ac_sublayers']",
                            wearing |-> 50, binder |-> 0, base |-> 0, total |-> 50] } :
           /\ sub # args.ac_sublayers
           /\ Rerun([args EXCEPT !.ac_sublayers = sub,
                                 !.layers[1] = IF sub = None THEN @
                                               ELSE WithThickness(@, sub.total)])

NextMinimum ==
    \/ SetSubgradeMr
    \/ AddDesignLayer
    \/ RemoveLayer
    \/ SetThicknessToMinimum
    \/ SetAcSublayers

SpecMinimum == Init /\ [][NextMinimum]_vars

(***************************************************************************)
(* SpecSolver: calls of calculate_sn_for_layer, one per argument tuple,    *)
(* from the ranges of the form and beyond them (a support of 10 psi)       *)
(***************************************************************************)

\* delta_psi is P0 - Pt: 4.2 - 2.5, 5.0 - 1.5, 3.0 - 3.0, 3.0 - 3.5
SolverArguments ==
    [W18 : {100000, 5000000, 250000000},
     Zr : {0, -1282},
     So : {45},
     delta_psi : {17, 35, 0, -5},
     Mr : {10, 4500, 35250, 536500}]

InitSolver ==
    /\ solver_args \in SolverArguments
    /\ solver_return = Pending
    /\ FlexIdle /\ RigidIdle /\ NomoIdle /\ AxisIdle /\ ToolsIdle

SolveCall ==
    /\ solver_return = Pending
    /\ solver_return' = calculate_sn_for_layer(solver_args.W18, solver_args.Zr, solver_args.So,
                                               solver_args.delta_psi, solver_args.Mr)
    /\ UNCHANGED << solver_args, flexVars, rigidVars, nomoVars, axisVars, toolVars >>

SpecSolver == InitSolver /\ [][SolveCall]_vars

(***************************************************************************)
(* SpecRigid: the rigid design form.  Each step changes one input and the  *)
(* script computes the capacity of the selected slab and checks it.        *)
(***************************************************************************)

\* the values each input of the form takes.  d_inch is the slab thickness in
\* 1/10 inch: none, 0.5, 1.2, 8 and 10 inch; ec_psi is the concrete modulus
\* 57000 * sqrt(f'c) psi, and a support nearly as stiff as the slab
RigidInputs ==
    [d_inch |-> {0, 5, 12, 80, 100},
     pt |-> {20, 30},
     zr |-> {0, -1282},
     so |-> {35},
     sc_psi |-> {400, 650},
     cd |-> {100},
     j |-> {32},
     ec_psi |-> {4000000, 1000},
     k_pci |-> {50, 200},
     w18_design |-> {0, 1000000, 50000000}]

\* one run of the script: delta_psi = 4.5 - pt, the capacity, the detailed
\* terms of the report, and check_design on the capacity
RigidRun(a) ==
    LET delta_psi == 45 - a.pt
        capacity == calculate_aashto_rigid_w18(a.d_inch, delta_psi, a.pt, a.zr, a.so,
                                               a.sc_psi, a.cd, a.j, a.ec_psi, a.k_pci)
    IN  IF capacity.t = "raise" THEN capacity
        ELSE [t |-> "shown",
              capacity |-> capacity,
              detailed |-> calculate_aashto_detailed(a.d_inch, delta_psi, a.pt, a.zr, a.so,
                                                     a.sc_psi, a.cd, a.j, a.ec_psi, a.k_pci),
              check |-> check_design_rigid(a.w18_design, capacity.w18)]

InitRigid ==
    /\ rigid_args = [d_inch |-> 100, pt |-> 20, zr |-> -1282, so |-> 35, sc_psi |-> 650,
                     cd |-> 100, j |-> 32, ec_psi |-> 4000000, k_pci |-> 200,
                     w18_design |-> 1000000]
    /\ rigid_result = RigidRun(rigid_args)
    /\ FlexIdle /\ SolverIdle /\ NomoIdle /\ AxisIdle /\ ToolsIdle

RigidRerun(a) ==
    /\ rigid_args' = a
    /\ rigid_result' = RigidRun(a)
    /\ UNCHANGED << flexVars, solverVars, nomoVars, axisVars, toolVars >>

\* one widget of the form is changed (slab thickness, pt, reliability, So,
\* Sc, Cd, J, Ec, k or the design W18) and the script runs again
SetRigidInput ==
    \E field \in DOMAIN RigidInputs :
        \E v \in RigidInputs[field] : RigidRerun([rigid_args EXCEPT ![field] = v])

SpecRigid == InitRigid /\ [][SetRigidInput]_vars

(***************************************************************************)
(* SpecNomo: the nomograph application.  Each step is one run of the       *)
(* script after one widget event.                                          *)
(***************************************************************************)

\* the longest list of calibration points kept per axis
MaxPoints == 2

\* the longest analysis period of a life-cycle cost (the forms go to 100 and
\* 200 years)
MaxPeriod == 45

\* the largest number of records in jpcp_calculations.json, and the last
\* second of the clock
MaxRecords == 2

\* positions entered in the click editor (x, y), in 1/10
Clicks == { << 500, 350 >>, << 800, 600 >> }

\* slider positions of Normal Mode
SliderValues == [Mr |-> {1000, 6000}, DSB |-> {4, 14}]

\* contents of the .json files offered to "Load Calibration File": a
\* calibration saved by the application, the same file edited to a k axis
\* that starts at 0 pci, and a calibration saved with the two clicks of the
\* Mr axis in the other order
CalibrationFiles ==
    LET saved == BuiltCalibration([key \in AxisKeys |-> << << 500, 350 >>, << 800, 600 >> >>])
    IN  { saved, [saved EXCEPT !.k.vmin = 0],
          [saved EXCEPT !.Mr.pmin = saved.Mr.pmax, !.Mr.pmax = saved.Mr.pmin] }

\* NormalModeReading is a pure function of the calibration and the sliders.
\* Its values at every calibration this model can store (a file, or built
\* from the first two points of each axis) are computed once, when the model
\* starts, and kept in reading_memo, which no step changes.
InitNomo ==
    /\ mode = "Normal Mode"
    /\ calib_points = [key \in AxisKeys |-> << >>]
    /\ CAL = EmptyDict
    /\ reading = None
    /\ uploaded_calib = None
    /\ uploaded_file = None
    /\ reading_memo =
           [x \in (CalibrationFiles
                      \cup { BuiltCalibration(p) : p \in [AxisKeys -> [1..2 -> Clicks]] })
                   \X SliderValues.Mr \X SliderValues.DSB
               |-> NormalModeReading(x[1], x[2], x[3])]
    /\ AxisIdle /\ FlexIdle /\ SolverIdle /\ RigidIdle /\ ToolsIdle

\* the Normal Mode block of a run in mode m with the calibration cal: the
\* sliders keep the values of the previous run, shown, when it drew them, and
\* start from their defaults (6000 psi, 14 inch) when it did not; the result
\* is None in Calibrate Mode, and when the calibration is empty and the
\* warning is shown instead
NormalMode(m, cal, shown) ==
    IF m # "Normal Mode" \/ cal = EmptyDict THEN None
    ELSE reading_memo[<< cal, IF shown = None THEN 6000 ELSE shown.Mr,
                              IF shown = None THEN 14 ELSE shown.DSB >>]

\* the radio button: Normal Mode shows a reading once a calibration is
\* stored, Calibrate Mode shows none
SetMode ==
    \E m \in {"Normal Mode", "Calibrate Mode"} :
        /\ mode' = m
        /\ reading' = NormalMode(m, CAL, reading)
        /\ CAL' = LoadCalibrationFile(uploaded_calib, CAL)
        /\ UNCHANGED << calib_points, uploaded_calib, uploaded_file, reading_memo,
                        flexVars, solverVars, rigidVars, axisVars, toolVars >>

\* a slider of Normal Mode moved
MoveSlider ==
    /\ mode = "Normal Mode"
    /\ CAL # EmptyDict
    /\ \E Mr \in SliderValues.Mr, DSB \in SliderValues.DSB :
           reading' = NormalMode(mode, CAL, [Mr |-> Mr, DSB |-> DSB])
    /\ CAL' = LoadCalibrationFile(uploaded_calib, CAL)
    /\ UNCHANGED << mode, calib_points, uploaded_calib, uploaded_file, reading_memo,
                    flexVars, solverVars, rigidVars, axisVars, toolVars >>

\* "Add Mr point", "Add DSB point", "Add k point": the position in the click
\* editor is appended to the list of the axis
AddPoint ==
    /\ mode = "Calibrate Mode"
    /\ \E key \in AxisKeys, click \in Clicks :
           /\ Len(calib_points[key]) < MaxPoints
           /\ calib_points' = [calib_points EXCEPT ![key] = Append(@, click)]
    /\ CAL' = LoadCalibrationFile(uploaded_calib, CAL)
    /\ UNCHANGED << mode, reading, uploaded_calib, uploaded_file, reading_memo,
                    flexVars, solverVars, rigidVars, axisVars, toolVars >>

\* "Build Calibration": offered once every axis has two points or more
BuildCalibration ==
    /\ mode = "Calibrate Mode"
    /\ \A key \in AxisKeys : Len(calib_points[key]) >= 2
    /\ CAL' = LoadCalibrationFile(uploaded_calib, BuiltCalibration(calib_points))
    /\ UNCHANGED << mode, calib_points, reading, uploaded_calib, uploaded_file, reading_memo,
                    flexVars, solverVars, rigidVars, axisVars, toolVars >>

\* a file chosen in "Load Calibration File": the Normal Mode block comes
\* before the load, so the run shows the estimate of the calibration stored
\* before it, and ends by storing the content of the file in
\* st.session_state.CAL
UploadCalibration ==
    /\ \E file \in CalibrationFiles :
           /\ uploaded_calib' = file
           /\ CAL' = LoadCalibrationFile(file, CAL)
    /\ reading' = NormalMode(mode, CAL, reading)
    /\ UNCHANGED << mode, calib_points, uploaded_file, reading_memo,
                    flexVars, solverVars, rigidVars, axisVars, toolVars >>

\* the file removed from the uploader: the stored calibration stays
RemoveCalibrationFile ==
    /\ uploaded_calib # None
    /\ uploaded_calib' = None
    /\ CAL' = LoadCalibrationFile(None, CAL)
    /\ reading' = NormalMode(mode, CAL, reading)
    /\ UNCHANGED << mode, calib_points, uploaded_file, reading_memo,
                    flexVars, solverVars, rigidVars, axisVars, toolVars >>

\* another chart image chosen in the image uploader, or the image removed
\* (the chart is nomograph.png again): the run draws the new image and goes
\* on as any other run, the session state is not touched
UploadImage ==
    /\ \E image \in {None, [t |-> "image", name |-> "chart.png"]} :
           /\ image # uploaded_file
           /\ uploaded_file' = image
    /\ reading' = NormalMode(mode, CAL, reading)
    /\ CAL' = LoadCalibrationFile(uploaded_calib, CAL)
    /\ UNCHANGED << mode, calib_points, uploaded_calib, reading_memo,
                    flexVars, solverVars, rigidVars, axisVars, toolVars >>

NextNomo ==
    \/ SetMode
    \/ MoveSlider
    \/ AddPoint
    \/ BuildCalibration
    \/ UploadCalibration
    \/ RemoveCalibrationFile
    \/ UploadImage

SpecNomo == InitNomo /\ [][NextNomo]_vars

\* Normal Mode with calibrations that are loaded from files: the runs of the
\* script in which no calibration point is edited
SpecReading ==
    InitNomo /\ [][\/ SetMode
                   \/ MoveSlider
                   \/ UploadCalibration
                   \/ RemoveCalibrationFile
                   \/ UploadImage]_vars

(***************************************************************************)
(* SpecAxis: one calibrated axis.  A value of the axis is mapped to its    *)
(* position, or a position is picked on the axis, and the value at the     *)
(* position is read back with log_unmap or with interpolate_log_scale.     *)
(***************************************************************************)

\* the value ranges of the three axes of the nomograph (vmin, vmax), each on
\* two calibration positions (pmin, pmax) in 1/10: whole numbers and decimals,
\* rising and falling
AxisCalibrations ==
    { [vmin |-> r[1], vmax |-> r[2], pmin |-> q[1], pmax |-> q[2]] :
          r \in { << 1000, 20000 >>, << 4, 18 >>, << 50, 2000 >> },
          q \in { << 1000, 8000 >>, << 600, 350 >>, << 11, 63 >>, << 587, 123 >> } }

\* values of the sliders and of the calibration that lie on the axis
AxisValues(a) ==
    { v \in { 4, 5, 9, 14, 18, 50, 60, 200, 1000, 1500, 2000, 6000, 12500, 20000 } :
          a.vmin <= v /\ v <= a.vmax }

\* positions picked on the axis, in 1/10: the two ends, the middle and the
\* places at 1/16 of the length from either end
PickPositions(a) ==
    { a.pmin, a.pmin + (a.pmax - a.pmin) \div 16, (a.pmin + a.pmax) \div 2,
      a.pmax - (a.pmax - a.pmin) \div 16, a.pmax }

InitAxis ==
    /\ axis \in AxisCalibrations
    /\ value = None
    /\ position = None
    /\ unmapped = None
    /\ FlexIdle /\ SolverIdle /\ RigidIdle /\ NomoIdle /\ ToolsIdle

\* log_map(v, **axis)
MapValue ==
    /\ \E v \in AxisValues(axis) :
           /\ value' = Num(v)
           /\ position' = MapOn(v, axis)
    /\ unmapped' = None
    /\ UNCHANGED << axis, flexVars, solverVars, rigidVars, nomoVars, toolVars >>

\* a position typed in
PickPosition ==
    /\ \E p \in PickPositions(axis) : position' = FromTenths(p)
    /\ value' = None
    /\ unmapped' = None
    /\ UNCHANGED << axis, flexVars, solverVars, rigidVars, nomoVars, toolVars >>

\* log_unmap(p, **axis)
Unmap ==
    /\ position # None
    /\ unmapped = None
    /\ unmapped' = [by |-> "log_unmap", v |-> UnmapOn(position, axis)]
    /\ UNCHANGED << axis, value, position, flexVars, solverVars, rigidVars, nomoVars, toolVars >>

\* interpolate_log_scale(p, pmin, vmin, pmax, vmax)
Interpolate ==
    /\ position # None
    /\ unmapped = None
    /\ unmapped' = [by |-> "interpolate_log_scale",
                    v |-> interpolate_log_scale(position, FromTenths(axis.pmin), axis.vmin,
                                                FromTenths(axis.pmax), axis.vmax)]
    /\ UNCHANGED << axis, value, position, flexVars, solverVars, rigidVars, nomoVars, toolVars >>

SpecAxis == InitAxis /\ [][MapValue \/ PickPosition \/ Unmap \/ Interpolate]_vars

(***************************************************************************)
(* SpecNpv: the life-cycle cost of an AC pavement.  Each step is one       *)
(* press of the NPV button after one value of the form was changed: the    *)
(* construction cost of AC1 or AC2, the maintenance costs, the design life *)
(* (all call sites pass 20; 25 is what a direct caller may pass), the      *)
(* analysis period and the discount rate.                                  *)
(***************************************************************************)

NpvCall ==
    /\ \E a \in { [npv_args EXCEPT !.initial_cost = v] : v \in {4689, 2904} }
                \cup { [npv_args EXCEPT !.seal_cost = v] : v \in {176, 200} }
                \cup { [npv_args EXCEPT !.design_life = v] : v \in {20, 25} }
                \cup { [npv_args EXCEPT !.analysis_period = v] : v \in 10..MaxPeriod }
                \cup { [npv_args EXCEPT !.discount_rate = v] : v \in {50, 70} } :
           /\ npv_args' = a
           /\ npv_return' = calculate_npv_ac(a.initial_cost, a.seal_cost, a.overlay_cost,
                                             a.design_life, a.analysis_period,
                                             a.discount_rate)
    /\ UNCHANGED << flexVars, solverVars, rigidVars, nomoVars, axisVars,
                    uploaded_json, session_state, rerun,
                    uploaded_files, merged_doc, jpcp_calculations, sessions, now >>

SpecNpv == InitTools
               /\ [][NpvCall]_vars

(***************************************************************************)
(* SpecProject: the project file of the rigid pavement application          *)
(* (src/C/Claude-Gir-Rigid-pavement.py).  session_state is st.session_state *)
(* as a dict (a key that is deleted leaves its domain), with the project    *)
(* name, W18 and k-infinity standing for the loaded fields; uploaded_json   *)
(* is the file held by the uploader, with the file's contents (None: not a  *)
(* JSON text) and whether an earlier run has read it.  Each step is one run *)
(* of the script; rerun says that the run ended in st.rerun().              *)
(***************************************************************************)

\* one run of the sidebar and of the form below it: the file in the uploader,
\* whether the clear button was pressed, what uploaded_file.read() gives and
\* the values typed in the form; the result is the session state and whether
\* the run called st.rerun()
main(state, file, clear_pressed, content, typed) ==
    LET Put(d, k, v) == [x \in DOMAIN d \cup {k} |-> IF x = k THEN v ELSE d[x]]
        initialized == IF "k_inf_result" \in DOMAIN state THEN state
                       ELSE Put(state, "k_inf_result", 500)
        file_id == [name |-> file.name, size |-> file.size]
        is_new == file # None /\ initialized.last_uploaded_file # file_id
        seen == IF is_new THEN Put(initialized, "last_uploaded_file", file_id)
                ELSE initialized
        clear_shown == /\ "calc_project_name" \in DOMAIN seen
                       /\ seen.calc_project_name # ""
        keys_to_clear == {"calc_project_name", "calc_w18", "k_inf_result"}
        widgets == Put(Put(seen, "calc_project_name",
                           IF "calc_project_name" \in DOMAIN typed THEN typed.calc_project_name
                           ELSE IF "calc_project_name" \in DOMAIN seen
                                THEN seen.calc_project_name ELSE ""),
                       "calc_w18",
                       IF "calc_w18" \in DOMAIN typed THEN typed.calc_w18
                       ELSE IF "calc_w18" \in DOMAIN seen THEN seen.calc_w18 ELSE 500000)
    IN  IF is_new /\ content # None
        THEN [session_state |-> Put(Put(Put(seen, "calc_project_name", content.project_name),
                                        "calc_w18", content.w18_design),
                                    "k_inf_result", content.k_inf_val),
              rerun |-> TRUE]
        ELSE IF clear_shown /\ clear_pressed
        THEN [session_state |->
                  Put([k \in DOMAIN seen \ keys_to_clear |-> seen[k]],
                      "last_uploaded_file", None),
              rerun |-> TRUE]
        ELSE [session_state |-> widgets, rerun |-> FALSE]

\* uploaded_file.read() of load_project_from_json: the bytes of the file,
\* or, when the stream was read by an earlier run and is not rewound,
\* nothing, which is not a JSON text (None is returned)
load_project_from_json(file) ==
    IF file = None THEN {None}
    ELSE {file.content} \cup (IF file.read THEN {None} ELSE {})

\* a run of the script: started by the user (a file chosen or removed in the
\* uploader, the clear button, a value typed in the form) when no rerun is
\* due, or the rerun that st.rerun() asked for
RunScript(file, clear_pressed, typed) ==
    \E content \in load_project_from_json(file) :
        LET run == main(session_state, file, clear_pressed, content, typed)
        IN  /\ session_state' = run.session_state
            /\ rerun' = run.rerun
            /\ uploaded_json' =
                   IF file # None /\ session_state.last_uploaded_file
                                        # [name |-> file.name, size |-> file.size]
                   THEN [file EXCEPT !.read = TRUE] ELSE file
            /\ UNCHANGED << flexVars, solverVars, rigidVars, nomoVars, axisVars,
                            npv_args, npv_return,
                            uploaded_files, merged_doc, jpcp_calculations, sessions, now >>

UploadJson ==
    /\ ~rerun
    /\ \E file \in {None} \cup
                   { [name |-> n, size |-> 120, read |-> FALSE,
                      content |-> [project_name |-> n, w18_design |-> 2000000,
                                   k_inf_val |-> 400]] : n \in {"a.json", "b.json"} }
                   \cup { [name |-> "c.json", size |-> 1, read |-> FALSE, content |-> None] } :
           /\ file = None => uploaded_json # None
           /\ RunScript(file, FALSE, << >>)

ClearLoadedData ==
    /\ ~rerun
    /\ "calc_project_name" \in DOMAIN session_state
    /\ session_state.calc_project_name # ""
    /\ RunScript(uploaded_json, TRUE, << >>)

TypeInForm ==
    /\ ~rerun
    /\ \E typed \in { [calc_project_name |-> n] : n \in {"", "P"} }
                    \cup { [calc_w18 |-> w] : w \in {500000, 1000000} } :
           RunScript(uploaded_json, FALSE, typed)

StRerun ==
    /\ rerun
    /\ RunScript(uploaded_json, FALSE, << >>)

SpecProject == InitTools
                   /\ [][UploadJson \/ ClearLoadedData \/ TypeInForm \/ StRerun]_vars

(***************************************************************************)
(* SpecReport: the report merger (src/Report-word-pdf.py).  uploaded_files  *)
(* is the dict of the six uploaders, filled in the order of FILE_KEYS;      *)
(* merged_doc is the document made by the last press of the merge button:   *)
(* its table of contents and its section headings, each a number and the    *)
(* title of a slot (the key stands for section_titles[key]).                *)
(***************************************************************************)

FILE_KEYS ==
    << "truck_factor", "esals", "ac_design", "concrete_design", "subgrade_modulus",
       "cost_estimate" >>

merge_documents(files) ==
    LET toc_items == SelectSeq([i \in DOMAIN FILE_KEYS |->
                                   [number |-> (i - 1) + 1, title |-> FILE_KEYS[i]]],
                               LAMBDA item : files[item.title] # None)
        RECURSIVE Sections(_, _, _)
        Sections(i, section_num, headings) ==
            IF i > Len(FILE_KEYS) THEN headings
            ELSE IF files[FILE_KEYS[i]] # None
            THEN Sections(i + 1, section_num + 1,
                          Append(headings, [number |-> section_num, title |-> FILE_KEYS[i]]))
            ELSE Sections(i + 1, section_num, headings)
    IN  [toc |-> toc_items, sections |-> Sections(1, 1, << >>)]

\* a file is chosen in one of the six uploaders, or taken out of it; the run
\* that follows shows the status row and no document
UploadReportFile ==
    /\ \E key \in DOMAIN uploaded_files :
           uploaded_files' =
               [uploaded_files EXCEPT ![key] =
                    IF @ = None THEN [t |-> "docx", name |-> key] ELSE None]
    /\ merged_doc' = None
    /\ UNCHANGED << flexVars, solverVars, rigidVars, nomoVars, axisVars,
                    npv_args, npv_return, uploaded_json, session_state, rerun,
                    jpcp_calculations, sessions, now >>

\* the merge button: an error message when no file is uploaded
MergeButton ==
    /\ merged_doc' = IF \A key \in DOMAIN uploaded_files : uploaded_files[key] = None
                     THEN None ELSE merge_documents(uploaded_files)
    /\ UNCHANGED << flexVars, solverVars, rigidVars, nomoVars, axisVars,
                    npv_args, npv_return, uploaded_json, session_state, rerun,
                    uploaded_files, jpcp_calculations, sessions, now >>

SpecReport == InitTools
                  /\ [][UploadReportFile \/ MergeButton]_vars

(***************************************************************************)
(* SpecJpcp: the calculation history of the JPCP calculator                *)
(* (src/app.py:1-175), used by two browser sessions of one server.         *)
(* jpcp_calculations is the file jpcp_calculations.json (None: no such     *)
(* file) and json the list of records in it; of a record the project name  *)
(* and the timestamp are kept.  sessions[s] holds st.session_state.calculations of *)
(* session s, the calc_record and the all_data of a save_calculation under *)
(* way (pc says where the handler stands), the entry whose delete button   *)
(* was pressed last and the exception that ended the last handler.  now is *)
(* the clock, in seconds.  A step is one access to the file by one         *)
(* session.                                                                *)
(***************************************************************************)

load_calculations(file) == IF file # None THEN file.json ELSE << >>

\* the save button: calc_record is built and save_calculation reads the file
SaveRead ==
    \E s \in DOMAIN sessions, project_name \in {"Main Road", "Bypass"} :
        /\ sessions[s].pc = "idle"
        /\ Len(load_calculations(jpcp_calculations)) < MaxRecords
        /\ sessions' = [sessions EXCEPT ![s] =
                            [@ EXCEPT !.calc_record = [project_name |-> project_name],
                                      !.all_data = load_calculations(jpcp_calculations),
                                      !.pc = "write", !.deleted = None, !.raised = None]]
        /\ UNCHANGED << flexVars, solverVars, rigidVars, nomoVars, axisVars,
                        npv_args, npv_return, uploaded_json, session_state, rerun,
                        uploaded_files, merged_doc, jpcp_calculations, now >>

\* save_calculation stamps the record with the time, appends it to what it
\* read and writes the file
SaveWrite ==
    \E s \in DOMAIN sessions, time \in now .. (now + 1) :
        /\ sessions[s].pc = "write"
        /\ time <= MaxRecords
        /\ now' = time
        /\ LET data == [project_name |-> sessions[s].calc_record.project_name,
                         timestamp |-> time]
           IN  /\ jpcp_calculations' = [t |-> "file", json |-> Append(sessions[s].all_data, data)]
               /\ sessions' = [sessions EXCEPT ![s] =
                                   [@ EXCEPT !.calc_record = data, !.all_data = None,
                                             !.pc = "load"]]
        /\ UNCHANGED << flexVars, solverVars, rigidVars, nomoVars, axisVars,
                        npv_args, npv_return, uploaded_json, session_state, rerun,
                        uploaded_files, merged_doc >>

\* st.session_state.calculations = load_calculations() after the save
LoadAfterSave ==
    \E s \in DOMAIN sessions :
        /\ sessions[s].pc = "load"
        /\ sessions' = [sessions EXCEPT ![s] =
                            [@ EXCEPT !.calculations = load_calculations(jpcp_calculations),
                                      !.pc = "idle"]]
        /\ UNCHANGED << flexVars, solverVars, rigidVars, nomoVars, axisVars,
                        npv_args, npv_return, uploaded_json, session_state, rerun,
                        uploaded_files, merged_doc, jpcp_calculations, now >>

\* the delete button number idx of the history tab, under a project filter
\* (None: all projects): the entries shown are the filtered records, latest
\* first; the handler pops entry len - 1 - idx of the session's list and
\* calls save_calculation(None, "jpcp_calculations.json"), which reads the
\* file and then assigns data['timestamp'] with data = None
DeleteButton ==
    \E s \in DOMAIN sessions,
       filter_project \in {None} \cup { [v |-> n] : n \in {"Main Road", "Bypass"} } :
        LET calculations == sessions[s].calculations
            display_data == SelectSeq([i \in DOMAIN calculations |-> i],
                                      LAMBDA i : \/ filter_project = None
                                                 \/ calculations[i].project_name
                                                        = filter_project.v)
        IN  /\ sessions[s].pc = "idle"
            /\ \E idx \in 0 .. (Len(display_data) - 1) :
                   LET shown == display_data[Len(display_data) - idx]
                       popped == Len(calculations) - 1 - idx
                   IN  sessions' = [sessions EXCEPT ![s] =
                           [@ EXCEPT !.calculations =
                                         SubSeq(calculations, 1, popped)
                                             \o SubSeq(calculations, popped + 2,
                                                       Len(calculations)),
                                     !.deleted = [index |-> shown,
                                                  calc |-> calculations[shown]],
                                     !.raised = Raise("TypeError")]]
            /\ UNCHANGED << flexVars, solverVars, rigidVars, nomoVars, axisVars,
                            npv_args, npv_return, uploaded_json, session_state, rerun,
                            uploaded_files, merged_doc, jpcp_calculations, now >>

SpecJpcp == InitTools
                /\ [][SaveRead \/ SaveWrite \/ LoadAfterSave \/ DeleteButton]_vars

(***************************************************************************)
(* Properties of the SN solver (SpecSolver)                                *)
(***************************************************************************)

\* the residual of the call in solver_args at the trial value SN
ResidualAt(SN) ==
    aashto_1993_equation(SN, solver_args.W18, solver_args.Zr, solver_args.So,
                         solver_args.delta_psi, solver_args.Mr)

\* the residual has the same sign at both ends of the bracket [0.01, 25.0]
SameSignAtEnds ==
    /\ ~IsNaN(ResidualAt(BracketLo))
    /\ ~IsNaN(ResidualAt(BracketHi))
    /\ Sign(ResidualAt(BracketLo)) * Sign(ResidualAt(BracketHi)) > 0

\* C1: whenever the residual has the same sign at both ends of the bracket
\* [0.01, 25.0], calculate_sn_for_layer returns its no-root value (None), and
\* every number it returns lies in [0.01, 25.0] (1 to 2500 hundredths).
C1_NoRootOrInsideBracket ==
    solver_return # Pending =>
        /\ SameSignAtEnds => solver_return = None
        /\ solver_return.t = "num" => (solver_return.v >= 1 /\ solver_return.v <= 2500)

\* a call with very heavy traffic on a very soft support has returned: the
\* residual is negative at both ends and the call reports no root
C1_Witness ==
    /\ solver_return = None
    /\ solver_args.W18 = 250000000
    /\ solver_args.Mr = 10
    /\ solver_args.delta_psi = 17
    /\ Sign(ResidualAt(BracketLo)) = -1
    /\ Sign(ResidualAt(BracketHi)) = -1

\* the outcome of the brentq call that calculate_sn_for_layer makes
BrentOutcome ==
    brentq(BracketLo, BracketHi, solver_args.W18, solver_args.Zr, solver_args.So,
           solver_args.delta_psi, solver_args.Mr)

\* the trial value x (in 1/SNU) is an end of a step of the grid over which
\* the residual is zero or changes sign: a root lies within 1/SNU of x
RootWithinOneStep(x) ==
    \E y \in {x - 1, x} :
        /\ ~IsNaN(ResidualAt(y))
        /\ ~IsNaN(ResidualAt(y + 1))
        /\ Sign(ResidualAt(y)) * Sign(ResidualAt(y + 1)) <= 0

\* one of the arguments of a logarithm of the equation is not positive
LogArgumentNotPositive ==
    solver_args.W18 <= 0 \/ solver_args.delta_psi <= 0 \/ solver_args.Mr <= 0

\* C14: whenever an argument of one of its logarithms is not positive,
\* aashto_1993_equation returns negative infinity (at every trial SN; the
\* solver has evaluated it at the two ends of the bracket), never nan or
\* another value.
C14_EquationReturnsNegInfSentinel ==
    (solver_return # Pending /\ LogArgumentNotPositive) =>
        /\ ResidualAt(BracketLo) = NegInf
        /\ ResidualAt(BracketHi) = NegInf

ValidSolverArguments ==
    /\ solver_args.W18 > 0
    /\ solver_args.delta_psi > 0
    /\ solver_args.Mr >= 1500

\* C16: for valid arguments the SN that calculate_sn_for_layer returns is
\* accurate to 1e-4: a root of the residual lies within 1e-4 of it, hence
\* within one step (1e-3) of the grid of trial values.
C16_ReturnedSNWithinTolerance ==
    (solver_return # Pending /\ solver_return.t = "num" /\ ValidSolverArguments) =>
        RootWithinOneStep(solver_return.v * (SNU \div 100))

(***************************************************************************)
(* Properties of the layer allocator (Spec)                                *)
(***************************************************************************)

\* the active layers of the latest call
Active == ActiveLayers(args.layers)

\* the coefficients the call uses for an input layer
CoeffOf(layer) == get(layer, "layer_coeff", MATERIALS[layer.material].layer_coeff)

DrainOf(layer) == get(layer, "drainage_coeff", 100)

\* sum of a_j * thickness_j * m_j over the active layers above layer i
RECURSIVE SumAbove(_)
SumAbove(i) ==
    IF i <= 1 THEN 0
    ELSE SumAbove(i - 1)
         + CoeffOf(Active[i - 1]) * Active[i - 1].thickness_cm * DrainOf(Active[i - 1])

\* SN still to be supplied at layer i, in 1/SNX
Needed(i) ==
    Max(0, (SNX \div 100) * calc_results.layers[i].sn_required_at_layer - SumAbove(i))

\* C2: a solver call that found no root makes calculate_layer_thicknesses
\* return a failure: no report carries a layer whose solver call returned
\* None with required SN 0, a minimum thickness and is_ok = true.
C2_NoRootIsExplicitFailure ==
    calc_results.t = "dict" =>
        \A i \in DOMAIN calc_results.layers :
            ~ /\ calc_results.sn_values[i].sn_required = None
              /\ calc_results.layers[i].sn_required_at_layer = 0
              /\ calc_results.layers[i].is_ok

\* C3: for every layer i of the report with a_i > 0 and m_i > 0 the minimum
\* thickness is max(0, SN_required_i - CumulativeSN) / (a_i * m_i), with
\* CumulativeSN summed over the chosen thicknesses of the layers above i
\* (reported in cm to one decimal and in inches to two).
C3_MinimumThicknessFormula ==
    calc_results.t = "dict" =>
        \A i \in DOMAIN calc_results.layers :
            LET rec == calc_results.layers[i]
            IN  (rec.a_i > 0 /\ rec.m_i > 0) =>
                    /\ rec.min_thickness_cm = Round(Needed(i), rec.a_i * rec.m_i, 1)
                    /\ rec.min_thickness_inch
                           = Round(Needed(i) * 10, rec.a_i * rec.m_i * 254, 100)

\* a two-layer report whose second layer still needs thickness after the
\* contribution of the first
C3_Witness ==
    /\ calc_results.t = "dict"
    /\ Len(calc_results.layers) = 2
    /\ calc_results.layers[1].sn_contribution > 0
    /\ calc_results.layers[2].a_i > 0
    /\ calc_results.layers[2].m_i > 0
    /\ calc_results.layers[2].min_thickness_cm > 0
    /\ Needed(2) < (SNX \div 100) * calc_results.layers[2].sn_required_at_layer

\* C4: the required SN of active layer i comes from a solver call with the
\* modulus of active layer i + 1, and with the subgrade modulus for the last
\* layer (as does the total required SN).
C4_SolverCalledWithModulusBelow ==
    calc_results.t = "dict" /\ Active # << >> =>
        /\ Len(calc_results.sn_values) = Len(Active)
        /\ \A i \in DOMAIN calc_results.sn_values :
               LET below == IF i < Len(Active) THEN MATERIALS[Active[i + 1].material].mr_psi
                            ELSE args.subgrade_mr
               IN  /\ calc_results.sn_values[i].mr_below = below
                   /\ calc_results.sn_values[i].sn_required
                          = sn_memo[<<args.W18, args.Zr, args.So, args.delta_psi, below>>]
        /\ calc_results.total_sn_required
               = sn_memo[<<args.W18, args.Zr, args.So, args.delta_psi, args.subgrade_mr>>]

\* two active layers of different materials on a subgrade of yet another
\* modulus: the first layer's call used the second layer's modulus
C4_Witness ==
    /\ calc_results.t = "dict"
    /\ Len(Active) = 2
    /\ Active[1].material = "PMA"
    /\ Active[2].material = "CAB"
    /\ calc_results.sn_values[1].mr_below = 50750
    /\ calc_results.sn_values[2].mr_below = args.subgrade_mr
    /\ calc_results.sn_values[1].sn_required # calc_results.sn_values[2].sn_required

\* C5: is_ok of a reported layer is true exactly when its chosen thickness is
\* at least its minimum thickness Needed / (a_i * m_i) (0 when a_i or m_i is
\* not positive); a first layer with a_i = 0.40, m_i = 1.0, required SN 2.00
\* and 5 cm chosen is reported as not ok.
C5_IsOkIffThickEnough ==
    calc_results.t = "dict" =>
        \A i \in DOMAIN calc_results.layers :
            LET rec == calc_results.layers[i]
                enough == IF rec.a_i > 0 /\ rec.m_i > 0
                          THEN rec.design_thickness_cm * rec.a_i * rec.m_i >= Needed(i)
                          ELSE rec.design_thickness_cm >= 0
            IN  /\ rec.is_ok <=> enough
                /\ (/\ i = 1
                    /\ rec.a_i = 40
                    /\ rec.m_i = 100
                    /\ rec.sn_required_at_layer = 200
                    /\ rec.design_thickness_cm = 50) => ~rec.is_ok

\* the example is reported: one layer, a = 0.40, m = 1.0, required SN 2.00,
\* 5 cm chosen against a minimum of 12.7 cm, is_ok false
C5_Witness ==
    /\ calc_results.t = "dict"
    /\ Len(calc_results.layers) = 1
    /\ calc_results.layers[1].a_i = 40
    /\ calc_results.layers[1].m_i = 100
    /\ calc_results.layers[1].sn_required_at_layer = 200
    /\ calc_results.layers[1].design_thickness_cm = 50
    /\ calc_results.layers[1].min_thickness_cm = 127
    /\ ~calc_results.layers[1].is_ok

\* the active layers whose layer coefficient or drainage coefficient is zero
ZeroCoefficientLayers == { i \in DOMAIN Active : CoeffOf(Active[i]) = 0 \/ DrainOf(Active[i]) = 0 }

WithThicknesses(th) ==
    [args EXCEPT !.layers = [i \in DOMAIN args.layers |-> WithThickness(args.layers[i], th[i])]]

\* the ways to choose the thicknesses of the layers of the latest call
OtherThicknesses == [DOMAIN args.layers -> FormValues.thickness_cm]

\* the first layer whose thickness th changes (past the end when none)
FirstChanged(th) ==
    IF \A i \in DOMAIN args.layers : th[i] = args.layers[i].thickness_cm
    THEN Len(args.layers) + 1
    ELSE CHOOSE i \in DOMAIN args.layers :
             /\ th[i] # args.layers[i].thickness_cm
             /\ \A j \in 1..(i - 1) : th[j] = args.layers[j].thickness_cm

\* the required SN values of two reports agree
SameRequiredSN(r1, r2) ==
    /\ r1.t = r2.t
    /\ r1.t = "dict" =>
           /\ r1.sn_values = r2.sn_values
           /\ r1.total_sn_required = r2.total_sn_required
           /\ Len(r1.layers) = Len(r2.layers)
           /\ \A i \in DOMAIN r1.layers :
                  r1.layers[i].sn_required_at_layer = r2.layers[i].sn_required_at_layer

\* C7: a run that differs from the latest one only in chosen thicknesses
\* reports the same required SN for every layer and the same total required
\* SN, and the same records for the layers above the first changed layer.
C7_RequiredSNIndependentOfThickness ==
    \A th \in OtherThicknesses :
        LET other == Calculate(WithThicknesses(th))
        IN  /\ SameRequiredSN(calc_results, other)
            /\ (calc_results.t = "dict" /\ Active = args.layers) =>
                   \A i \in DOMAIN calc_results.layers :
                       i < FirstChanged(th) => other.layers[i] = calc_results.layers[i]

\* two runs that differ in the thickness of the first layer: the second
\* layer's minimum thickness differs, its required SN does not
C7_Witness ==
    /\ calc_results.t = "dict"
    /\ Len(calc_results.layers) = 2
    /\ calc_results.layers[2].sn_required_at_layer > 0
    /\ \E th \in OtherThicknesses :
           /\ th[1] # args.layers[1].thickness_cm
           /\ th[2] = args.layers[2].thickness_cm
           /\ Calculate(WithThicknesses(th)).layers[2].min_thickness_cm
                  # calc_results.layers[2].min_thickness_cm
           /\ Calculate(WithThicknesses(th)).layers[2].sn_required_at_layer
                  = calc_results.layers[2].sn_required_at_layer

\* C13: a serviceability loss or a subgrade modulus that is not positive is
\* rejected by calculate_layer_thicknesses as InvalidDomainInput before
\* anything is computed: the call returns that failure, never a report.
C13_InvalidDomainInputRejected ==
    (args.delta_psi <= 0 \/ args.subgrade_mr <= 0) =>
        calc_results = Raise("InvalidDomainInput")

\* every layer of the report has positive coefficients and a chosen
\* thickness equal to the minimum thickness reported for it
AllAtMinimum ==
    /\ calc_results.t = "dict"
    /\ calc_results.layers # << >>
    /\ \A i \in DOMAIN calc_results.layers :
           /\ calc_results.layers[i].a_i > 0
           /\ calc_results.layers[i].m_i > 0
           /\ calc_results.layers[i].design_thickness_cm
                  = calc_results.layers[i].min_thickness_cm

\* the largest required SN among the layers of the report
LargestRequiredSN ==
    CHOOSE x \in { calc_results.layers[i].sn_required_at_layer : i \in DOMAIN calc_results.layers } :
        \A i \in DOMAIN calc_results.layers : calc_results.layers[i].sn_required_at_layer <= x

\* C17 as claimed: when every layer is at its minimum thickness,
\* total_sn_provided equals total_sn_required (the required SN over the
\* subgrade) within 0.02.
C17_SumAtMinimumEqualsTotalRequired ==
    AllAtMinimum =>
        /\ calc_results.total_sn_required.t = "num"
        /\ Abs(calc_results.total_sn_provided - calc_results.total_sn_required.v) <= 2

\* C17 as amended: when every layer is at its minimum thickness,
\* total_sn_provided equals within 0.02 the largest SN required at any layer;
\* that is total_sn_required when no layer needs more than the last one
\* (the one over the subgrade), and more than total_sn_required otherwise.
C17_SumAtMinimumEqualsLargestRequired ==
    AllAtMinimum =>
        LET last == calc_results.layers[Len(calc_results.layers)].sn_required_at_layer
        IN  /\ Abs(calc_results.total_sn_provided - LargestRequiredSN) <= 2
            /\ calc_results.total_sn_required.t = "num" =>
                   /\ calc_results.total_sn_required.v = last
                   /\ last = LargestRequiredSN =>
                          Abs(calc_results.total_sn_provided
                                  - calc_results.total_sn_required.v) <= 2
                   /\ last + 2 < LargestRequiredSN =>
                          calc_results.total_sn_provided > calc_results.total_sn_required.v

\* two layers at their minimum thicknesses, both needed, on the weakest
\* support of the structure: the total provided meets the total required
C17_Witness ==
    /\ AllAtMinimum
    /\ Len(calc_results.layers) = 2
    /\ calc_results.layers[1].min_thickness_cm > 0
    /\ calc_results.layers[2].min_thickness_cm > 0
    /\ calc_results.layers[2].sn_required_at_layer = LargestRequiredSN
    /\ calc_results.total_sn_required.t = "num"
    /\ Abs(calc_results.total_sn_provided - calc_results.total_sn_required.v) <= 2

\* C22: calculate_layer_thicknesses has no effect besides its report: the
\* arguments of the call are after it what they were, and no dict of the
\* report is an object of the inputs (here the ac_sublayers dict, the only
\* argument that the report names; every other field of the report holds a
\* number, a string or a truth value).
C22_ReportSharesNothingWithInputs ==
    (calc_results.t = "dict" /\ args.ac_sublayers # None) =>
        /\ calc_results.ac_sublayers # None =>
               calc_results.ac_sublayers.id # args.ac_sublayers.id
        /\ \A i \in DOMAIN calc_results.layers :
               calc_results.layers[i].ac_sublayers # None =>
                   calc_results.layers[i].ac_sublayers.id # args.ac_sublayers.id

\* C24: when every layer of a report is ok (is_ok true), the design check on
\* the totals of the report passes with status OK.
C24_AllLayersOkImpliesDesignPasses ==
    (/\ calc_results.t = "dict"
     /\ calc_results.layers # << >>
     /\ \A i \in DOMAIN calc_results.layers : calc_results.layers[i].is_ok) =>
        LET design_check == check_design(calc_results.total_sn_required,
                                         calc_results.total_sn_provided)
        IN  design_check.passed /\ design_check.status = "OK"

\* C25: in every layer of a report is_ok agrees with the numbers reported
\* beside it: it is true exactly when design_thickness_cm is at least the
\* reported min_thickness_cm (rounded to 0.1 cm), so no layer is reported
\* as not ok with a shortage of 0.0 cm.
C25_VerdictAgreesWithReportedNumbers ==
    calc_results.t = "dict" =>
        \A i \in DOMAIN calc_results.layers :
            LET rec == calc_results.layers[i]
            IN  rec.is_ok <=> rec.design_thickness_cm >= rec.min_thickness_cm

\* C18: in every report the cumulative_sn of the layers never decreases
\* from one layer to the next (and starts at 0 or more), and
\* total_sn_provided is the cumulative_sn of the last layer.
C18_CumulativeSNMonotone ==
    (calc_results.t = "dict" /\ calc_results.layers # << >>) =>
        /\ calc_results.layers[1].cumulative_sn >= 0
        /\ \A i \in DOMAIN calc_results.layers :
               i > 1 => calc_results.layers[i].cumulative_sn
                            >= calc_results.layers[i - 1].cumulative_sn
        /\ calc_results.total_sn_provided
               = calc_results.layers[Len(calc_results.layers)].cumulative_sn

\* a report of two layers that both contribute: the cumulative SN grows
\* from the first to the second and the total is that of the second
C18_Witness ==
    /\ calc_results.t = "dict"
    /\ Len(calc_results.layers) = 2
    /\ calc_results.layers[1].cumulative_sn > 0
    /\ calc_results.layers[2].cumulative_sn > calc_results.layers[1].cumulative_sn
    /\ calc_results.total_sn_provided = calc_results.layers[2].cumulative_sn

\* C19: with a positive subgrade modulus every solver call of
\* calculate_layer_thicknesses is made with a positive support modulus: the
\* skip material (modulus 0) is never the material below a layer.
C19_SolverCallsHavePositiveModulus ==
    (calc_results.t = "dict" /\ args.subgrade_mr > 0) =>
        \A i \in DOMAIN calc_results.sn_values : calc_results.sn_values[i].mr_below > 0

\* a layer list with a skip-material entry right under a layer: the call for
\* that layer used the subgrade modulus
C19_Witness ==
    /\ calc_results.t = "dict"
    /\ Len(args.layers) = 2
    /\ args.layers[1].material # "NONE"
    /\ args.layers[2].material = "NONE"
    /\ MATERIALS[args.layers[2].material].mr_psi = 0
    /\ Len(calc_results.sn_values) = 1
    /\ calc_results.sn_values[1].mr_below = args.subgrade_mr
    /\ args.subgrade_mr > 0

(***************************************************************************)
(* Properties of the rigid capacity evaluator (SpecRigid)                  *)
(***************************************************************************)

\* numerator and denominator of the strength/support ratio for the form values
FormNumerator4 ==
    Numerator4(rigid_args.sc_psi, rigid_args.cd, d_power_of(rigid_args.d_inch))

FormDenominator4 ==
    Denominator4(rigid_args.j, d_power_of(rigid_args.d_inch),
                 support_term(rigid_args.ec_psi, rigid_args.k_pci))

\* C8: for slab parameters in their domain (thickness >= 0, the others
\* positive), whenever the numerator or the denominator of the
\* strength/support ratio is not positive, calculate_aashto_rigid_w18
\* returns (-inf, 0) and raises nothing; calculate_aashto_detailed reports
\* the same log10_w18 and w18.
C8_NoCapacityInsteadOfDomainError ==
    (FormNumerator4 <= 0 \/ FormDenominator4 <= 0) =>
        /\ rigid_result.t = "shown"
        /\ rigid_result.capacity = NoCapacity
        /\ rigid_result.detailed.t = "dict"
        /\ rigid_result.detailed.result = [log10_w18 |-> NegInf, w18 |-> 0]

\* a slab of zero thickness has been evaluated: the numerator is negative
\* and the result is (-inf, 0)
C8_Witness ==
    /\ rigid_args.d_inch = 0
    /\ FormNumerator4 < 0
    /\ rigid_result.t = "shown"
    /\ rigid_result.capacity = NoCapacity

\* C9: check_design(w18_required, w18_capacity) returns
\* passed = (capacity >= required) and ratio = capacity / required, the
\* ratio being +inf when the required load is zero; it raises nothing.
C9_CheckDesignPassedAndRatio ==
    rigid_result.t = "shown" =>
        LET required == rigid_args.w18_design
            capacity == rigid_result.capacity.w18
            check == rigid_result.check
        IN  /\ check.t = "tuple"
            /\ check.passed <=> (capacity >= required)
            /\ required = 0 => check.ratio = PosInf
            /\ required > 0 =>
                   /\ check.ratio.k = "fin"
                   /\ check.ratio.d > 0
                   /\ required % check.ratio.d = 0
                   /\ capacity = check.ratio.n * (required \div check.ratio.d)

\* a check against a required load of zero: passed, with ratio +inf
C9_Witness ==
    /\ rigid_result.t = "shown"
    /\ rigid_args.w18_design = 0
    /\ rigid_result.check.t = "tuple"
    /\ rigid_result.check.passed
    /\ rigid_result.check.ratio = PosInf

(***************************************************************************)
(* Properties of the nomograph calibration (SpecNomo)                      *)
(***************************************************************************)

\* C10: an axis is never built from insufficient calibration: a stored
\* calibration has, on every axis, two end positions that differ.
C10_NoAxisFromDegenerateCalibration ==
    CAL # EmptyDict => \A key \in AxisKeys : CAL[key].pmin # CAL[key].pmax

\* C20: every calibration held for use, built or loaded from a file, has
\* strictly positive calibration values on every axis (so that no reading
\* is ever computed from a non-positive calibration value).
C20_HeldCalibrationValuesPositive ==
    CAL # EmptyDict => \A key \in AxisKeys : CAL[key].vmin > 0 /\ CAL[key].vmax > 0

\* C30: the k-infinity shown in Normal Mode depends on the DSB slider and on
\* the DSB and k axes of the calibration only: the reading of any other
\* position of the Mr slider, under a calibration with any other Mr axis and
\* the same DSB and k axes, shows the same k-infinity.
C30_KInfIndependentOfMr ==
    [][(reading' # None /\ CAL # EmptyDict) =>
           \A other \in DOMAIN reading_memo :
               (/\ other[1].DSB = CAL.DSB
                /\ other[1].k = CAL.k
                /\ other[3] = reading'.DSB) =>
                   reading_memo[other].k_inf = reading'.k_inf]_vars

\* a reading at Mr = 1000 psi is shown whose position on the Mr axis differs
\* from that of 6000 psi, with a k-infinity read off the chart
C30_Witness ==
    /\ reading # None
    /\ CAL # EmptyDict
    /\ reading.Mr = 1000
    /\ reading = reading_memo[<< CAL, 1000, reading.DSB >>]
    /\ reading.y_mr # reading_memo[<< CAL, 6000, reading.DSB >>].y_mr
    /\ reading.k_inf.k = "fin"
    /\ \E other \in DOMAIN reading_memo :
           /\ other[1].Mr # CAL.Mr
           /\ other[1].DSB = CAL.DSB
           /\ other[1].k = CAL.k

\* C21: the lifecycle of the calibrated axes over any sequence of user
\* actions: a stored calibration only changes by a build or a load (it is
\* read-only otherwise), and the run in which a new chart image or a new
\* calibration file is supplied no longer shows an estimate read off the
\* calibration stored before it.
C21_AxisReadOnlyThenDiscarded ==
    [][/\ CAL' # CAL =>
              \/ CAL' = uploaded_calib'
              \/ /\ \A key \in AxisKeys : Len(calib_points[key]) >= 2
                 /\ CAL' = BuiltCalibration(calib_points)
       /\ (uploaded_file' # uploaded_file /\ uploaded_file' # None) => reading' = None
       /\ (uploaded_calib' # uploaded_calib /\ uploaded_calib' # None /\ reading' # None) =>
              reading' = NormalMode(mode', CAL', reading')]_vars

(***************************************************************************)
(* Properties of one axis (SpecAxis)                                       *)
(***************************************************************************)

PositionStrictlyBetween ==
    /\ position.k = "fin"
    /\ FSub(position, FromTenths(axis.pmin)).v # 0
    /\ FSub(position, FromTenths(axis.pmin)).v = FSub(FromTenths(axis.pmax), position).v

\* the value read back lies strictly between the two calibration values
ValueStrictlyBetween ==
    /\ unmapped.v.k = "fin"
    /\ axis.vmin * FP < unmapped.v.v
    /\ unmapped.v.v < axis.vmax * FP

\* C12 as stated: map(vmin) = pmin and map(vmax) = pmax exactly, and the
\* value at any position strictly between the two calibration positions is
\* strictly between the two calibration values.
C12_CalibrationPointsReproducedExactly ==
    /\ value = Num(axis.vmin) => position = FromTenths(axis.pmin)
    /\ value = Num(axis.vmax) => position = FromTenths(axis.pmax)
    /\ (unmapped # None /\ PositionStrictlyBetween) => ValueStrictlyBetween

\* one unit in the last place of the calibration position of larger magnitude
RoundingUnit ==
    MagBit(MagBitLen(IF MagCmp(FromTenths(axis.pmin).m, FromTenths(axis.pmax).m) >= 0
                     THEN FromTenths(axis.pmin).m ELSE FromTenths(axis.pmax).m) - 53)

\* the distance (p - pmin) / (pmax - pmin) of the position along the axis
AxisRatio ==
    FDiv(FSub(position, FromTenths(axis.pmin)),
         FSub(FromTenths(axis.pmax), FromTenths(axis.pmin)))

\* C12, amended: map(vmin) = pmin exactly; map(vmax) is pmax to within one
\* rounding unit of the larger position, and exactly when both positions are
\* whole numbers; the value at a position between the two calibration
\* positions, further than the rounding of its distance along the axis from
\* either, is strictly between the two calibration values.
C12_CalibrationPointsReproducedWithinRounding ==
    /\ value = Num(axis.vmin) => position = FromTenths(axis.pmin)
    /\ value = Num(axis.vmax)
           => /\ position.k = "fin"
              /\ MagCmp(FSub(position, FromTenths(axis.pmax)).m, RoundingUnit) <= 0
              /\ (axis.pmin % 10 = 0 /\ axis.pmax % 10 = 0)
                     => position = FromTenths(axis.pmax)
    /\ (unmapped # None /\ AxisRatio.k = "fin" /\ 0 < AxisRatio.v /\ AxisRatio.v < FP)
           => ValueStrictlyBetween

C12_Witness ==
    /\ axis = [vmin |-> 1000, vmax |-> 20000, pmin |-> 1000, pmax |-> 8000]
    /\ value = Num(20000)
    /\ position = FromTenths(8000)
    /\ unmapped # None

(***************************************************************************)
(* Properties of the life-cycle cost (SpecNpv)                             *)
(***************************************************************************)

\* C23: for an AC pavement with a design life of 20 years the cash flows
\* have, counted from each construction or reconstruction, seal coating in
\* the years 3, 6, 12 and 15 and an overlay in the years 9 and 18,
\* reconstruction in the years 20, 40, ... of the analysis period (and
\* construction in year 0), nothing in any other year, and never more than
\* one activity in a year.
C23_ScheduleCountedFromReconstruction ==
    (npv_return # None /\ npv_args.design_life = 20) =>
        /\ npv_return.t = "tuple"
        /\ Len(npv_return.cash_flows) = npv_args.analysis_period + 1
        /\ \A i \in DOMAIN npv_return.cash_flows :
               LET flow == npv_return.cash_flows[i]
                   age == flow.year % 20
               IN  /\ flow.year = i - 1
                   /\ flow.activities =
                          (IF age = 0 THEN << "reconstruction" >>
                           ELSE IF age \in {9, 18} THEN << "Overlay" >>
                           ELSE IF age \in {3, 6, 12, 15} THEN << "Seal Coating" >>
                           ELSE << >>)
                   /\ Len(flow.activities) <= 1

(***************************************************************************)
(* Properties of the project file (SpecProject)                            *)
(***************************************************************************)

\* C26: once the loaded data was cleared (the file is still in the uploader
\* and last_uploaded_file is None), a run that finds the same file in the
\* uploader writes none of the loaded fields back into the session state.
C26_ClearedDataStaysCleared ==
    [][(/\ uploaded_json # None
        /\ session_state.last_uploaded_file = None
        /\ uploaded_json.content # None
        /\ uploaded_json' # None
        /\ uploaded_json'.name = uploaded_json.name) =>
           /\ "calc_project_name" \in DOMAIN session_state' =>
                  session_state'.calc_project_name # uploaded_json.content.project_name
           /\ "calc_w18" \in DOMAIN session_state' =>
                  session_state'.calc_w18 # uploaded_json.content.w18_design
           /\ "k_inf_result" \in DOMAIN session_state' =>
                  session_state'.k_inf_result # uploaded_json.content.k_inf_val]_vars

(***************************************************************************)
(* Properties of the merged report (SpecReport)                            *)
(***************************************************************************)

\* C27: in a merged report the table of contents and the section headings
\* list the same sections, entry j of the table of contents carries the
\* number of heading j, and both number the sections 1, 2, 3, ... without
\* gaps, whichever of the six slots are filled.
C27_ContentsNumbersMatchHeadings ==
    merged_doc # None =>
        /\ Len(merged_doc.toc) = Len(merged_doc.sections)
        /\ \A j \in DOMAIN merged_doc.toc :
               /\ merged_doc.toc[j].title = merged_doc.sections[j].title
               /\ merged_doc.toc[j].number = merged_doc.sections[j].number
               /\ merged_doc.toc[j].number = j

(***************************************************************************)
(* Properties of the calculation history (SpecJpcp)                        *)
(***************************************************************************)

\* C28: a press of a delete button in the history tab ends without an
\* exception and takes exactly the entry of that button out of the
\* session's list and out of the file; the other records stay, in order.
C28_DeleteRemovesExactlyThatRecord ==
    [][\A s \in DOMAIN sessions :
           (sessions'[s].deleted # None /\ sessions'[s] # sessions[s]) =>
               LET Without(list, calc) ==
                       LET at == { i \in DOMAIN list : list[i] = calc }
                           first == CHOOSE i \in at : \A j \in at : i <= j
                       IN  IF at = {} THEN list
                           ELSE SubSeq(list, 1, first - 1) \o SubSeq(list, first + 1, Len(list))
                   index == sessions'[s].deleted.index
               IN  /\ sessions'[s].raised = None
                   /\ sessions'[s].calculations =
                          SubSeq(sessions[s].calculations, 1, index - 1)
                              \o SubSeq(sessions[s].calculations, index + 1,
                                        Len(sessions[s].calculations))
                   /\ load_calculations(jpcp_calculations') =
                          Without(load_calculations(jpcp_calculations),
                                  sessions'[s].deleted.calc)]_vars

\* C29: no save is lost: once save_calculation of a session has written its
\* record, the record is in the file, whatever the other session does.
C29_NoSavedRecordIsLost ==
    \A s \in DOMAIN sessions :
        (sessions[s].calc_record # None /\ sessions[s].pc # "write") =>
            \E i \in DOMAIN load_calculations(jpcp_calculations) :
                load_calculations(jpcp_calculations)[i] = sessions[s].calc_record

====
